---- MODULE Spec2Model ----
(***************************************************************************)
(* Tournament manager: the tournaments store, the match state machine,     *)
(* captain linking, score submissions and the reconciliation with the      *)
(* tournament provider (plugins/tournament_manager).                       *)
(*                                                                         *)
(* Conventions.  A Python dict/dataclass is a TLA+ record; a list is a     *)
(* sequence; None is the string "None"; the tournaments store (a dict in   *)
(* insertion order, keyed by alias) is a sequence of Tournament records.   *)
(* Team ids are stored as strings ("1", "2") as the provider's JSON gives  *)
(* them, while command arguments declared type=int are integers: str() is  *)
(* StrOfInt.  Every handler is one operator from (state, inputs) to        *)
(* [store/t, out] and one action that applies it; `out` is the sequence of *)
(* replies sent / the exception raised, <<"ok">> for a success.            *)
(***************************************************************************)
EXTENDS Integers, Sequences, FiniteSets, TLC

VARIABLES
    tournaments,  \* self["tournaments"]: the store, in dict insertion order
    now,          \* the wall clock read by datetime.now()
    completed,    \* history: the <<alias, match name>> pairs seen COMPLETED
    threads       \* the commands in flight on the thread pool, <<>> when none

vars == <<tournaments, now, completed, threads>>

----------------------------------------------------------------------------
(* Bounds and input domains *)

MaxLinks == 2       \* most screenshot links kept on one submission
MaxFetch == 2       \* most participants in one provider response
MaxTeams == 2       \* most participants the provider knows for one tournament

None == "None"
LoadTime == 0       \* the time the modules were imported

Users == {"u1", "u2", "u3"}
MatchNames == {"m1", "m2"}
Admin == "admin"
Password == "pw"
Urls == {"s1", "s2"}

PENDING == "PENDING"
ONGOING == "ONGOING"
COMPLETED == "COMPLETED"
MatchStatus == {PENDING, ONGOING, COMPLETED}

\* str(team_id) of an int argument
StrOfInt(n) == ToString(n)

\* int(team.id) of a stored id
IntOfStr(s) == CHOOSE n \in 0..9 : ToString(n) = s

----------------------------------------------------------------------------
(* Sequence helpers: Python list semantics *)

Range(s) == {s[i] : i \in 1..Len(s)}

\* index of the first element satisfying P, 0 when there is none (None)
FirstIndex(s, P(_)) ==
    IF \E i \in 1..Len(s) : P(s[i])
    THEN CHOOSE i \in 1..Len(s) : P(s[i]) /\ \A j \in 1..(i - 1) : ~P(s[j])
    ELSE 0

RemoveAt(s, i) == SubSeq(s, 1, i - 1) \o SubSeq(s, i + 1, Len(s))

\* list.remove(x): drops the first element equal to x
ListRemove(s, x) == RemoveAt(s, FirstIndex(s, LAMBDA e : e = x))

----------------------------------------------------------------------------
(* Entities *)

\* ScoreSubmission(...): updated_at defaults to the import-time value
ScoreSubmission(match_name, team_name, urls, position, eliminations) ==
    [match_name |-> match_name, team_name |-> team_name,
     screenshot_links |-> urls, position |-> position,
     eliminations |-> eliminations, updated_at |-> LoadTime]

\* the fields of Match the services, the plugin and the tests use beyond match.py
MatchExtraDefaults == [id |-> 0, group_name |-> None, teams_registered |-> <<>>]

\* Match(id=, name=, created_by=, password=)
Match(match_id, name, created_by, password) ==
    [name |-> name, created_by |-> created_by, password |-> password,
     status |-> PENDING, teams_joined |-> <<>>,
     id |-> match_id,
     group_name |-> MatchExtraDefaults.group_name,
     teams_registered |-> MatchExtraDefaults.teams_registered]

\* the provider's "not found": an empty dict, `not d` in the callers
EmptyDict == <<>>
IsEmpty(d) == DOMAIN d = {}

\* dict.get(key, default) on a provider dict
Get(d, key, default) == IF key \in DOMAIN d THEN d[key] ELSE default

\* Team.from_dict(participant): keys that are fields, defaults for the rest
TeamFromDict(p) ==
    [id |-> p.id, name |-> p.name,
     custom_fields |-> Get(p, "custom_fields", <<>>),
     lineup |-> Get(p, "lineup", <<>>),
     captain |-> None,
     checked_in |-> Get(p, "checked_in", None),
     score_submissions |-> <<>>]

\* Tournament(id=, alias=, url=, info=) and tournament.teams = [...]
Tournament(tournament_id, alias, info, teams) ==
    [id |-> tournament_id, alias |-> alias, info |-> info,
     administrator_roles |-> <<>>, captain_role |-> None, channels |-> <<>>,
     matches |-> <<>>, teams |-> teams]

----------------------------------------------------------------------------
(* Queries *)

\* Team.find_submission_by_match: index into team.score_submissions, 0 = None
FindSubmissionByMatch(team, match_name) ==
    FirstIndex(team.score_submissions, LAMBDA s : s.match_name = match_name)

\* Tournament.find_match_by_name / TournamentService.find_match_by_name
FindMatchByName(t, match_name) ==
    FirstIndex(t.matches, LAMBDA m : m.name = match_name)

\* Tournament.find_team_by_id / TournamentService.find_team_by_id: p.id == str(team_id)
FindTeamById(t, sid) == FirstIndex(t.teams, LAMBDA p : p.id = sid)

\* Tournament.find_team_by_name
FindTeamByName(t, team_name) == FirstIndex(t.teams, LAMBDA p : p.name = team_name)

\* Tournament.find_team_by_captain / TournamentService.find_captain_team
FindTeamByCaptain(t, captain_name) ==
    FirstIndex(t.teams, LAMBDA p : p.captain = captain_name)

\* `alias in self["tournaments"]`: position of the key, 0 when absent
AliasIndex(store, alias) == FirstIndex(store, LAMBDA t : t.alias = alias)

\* TournamentManagerPlugin._find_captain_team: first tournament, in store
\* order, holding a team whose captain is username; <<0, 0>> is (None, None)
FindCaptainTeam(username, store) ==
    LET k == FirstIndex(store, LAMBDA t : FindTeamByCaptain(t, username) # 0)
    IN  IF k = 0 THEN [k |-> 0, i |-> 0]
        ELSE [k |-> k, i |-> FindTeamByCaptain(store[k], username)]

----------------------------------------------------------------------------
(* Results *)

\* the handler ran to its end (its last reply is the success message)
Done(out) == out[Len(out)] = "ok"
\* the handler sent an error reply or raised
Failed(out) == out[1] # "ok"
Ok(out) == out = <<"ok">>

\* a plugin handler's result on the deserialized copy: save is whether it
\* reached tournaments.update(...)
Saved(t, out) == [t |-> t, save |-> TRUE, out |-> out]
Refused(t, out) == [t |-> t, save |-> FALSE, out |-> out]

\* `if alias not in self["tournaments"]` ... Tournament.from_dict(tournaments[alias])
\* ... tournaments.update({alias: tournament.to_dict()})
OnAlias(store, alias, Handler(_)) ==
    LET k == AliasIndex(store, alias) IN
    IF k = 0 THEN [store |-> store, out |-> <<"TournamentNotFound">>]
    ELSE LET r == Handler(store[k]) IN
         [store |-> IF r.save THEN [store EXCEPT ![k] = r.t] ELSE store,
          out |-> r.out]

----------------------------------------------------------------------------
(* Match lifecycle: MatchService and the plugin commands *)

\* [p["participant"]["id"] for p in match_info["opponents"]]
OpponentIds(info) ==
    [j \in 1..Len(info.opponents) |-> info.opponents[j].participant.id]

\* create_match taking the group name from the provider's answer and
\* forgetting the opponents
SvcCreateMatchUnregistered(match_id, match_name, created_by, password, info) ==
    LET match == Match(match_id, match_name, created_by, password) IN
    IF match_id # 0
    THEN IF IsEmpty(info)
         THEN [match |-> match, out |-> <<"MatchIDNotFound">>]
         ELSE [match |-> [match EXCEPT !.group_name = info.public_notes],
               out |-> <<"ok">>]
    ELSE [match |-> match, out |-> <<"ok">>]

\* MatchService.create_match: info is the provider's get_match answer, <<>>
\* standing for the empty dict; returns [match, out]
SvcCreateMatch(match_id, match_name, created_by, password, info) ==
    LET match == Match(match_id, match_name, created_by, password) IN
    IF match_id # 0
    THEN IF IsEmpty(info)
         THEN [match |-> match, out |-> <<"MatchIDNotFound">>]
         ELSE [match |-> [match EXCEPT !.group_name = info.public_notes,
                                       !.teams_registered = OpponentIds(info)],
               out |-> <<"ok">>]
    ELSE [match |-> match, out |-> <<"ok">>]

\* create_match without its name check
CreateMatchAgain(t, match_name, password, match_id, info) ==
    LET match == Match(match_id, match_name, Admin, password) IN
    IF match_id # 0 /\ IsEmpty(info)
    THEN Refused(t, <<"MatchIDNotFound">>)
    ELSE LET m == IF match_id # 0
                  THEN [match EXCEPT !.group_name = info.public_notes,
                                     !.teams_registered = OpponentIds(info)]
                  ELSE match
         IN  Saved([t EXCEPT !.matches = Append(@, m)], <<"ok">>)

\* TournamentManagerPlugin.create_match
CreateMatch(t, match_name, password, match_id, info) ==
    IF FindMatchByName(t, match_name) # 0
    THEN Refused(t, <<"MatchNameExists">>)
    ELSE LET match == Match(match_id, match_name, Admin, password) IN
         IF match_id # 0 /\ IsEmpty(info)
         THEN Refused(t, <<"MatchIDNotFound">>)
         ELSE LET m == IF match_id # 0
                       THEN [match EXCEPT !.group_name = info.public_notes,
                                          !.teams_registered = OpponentIds(info)]
                       ELSE match
              IN  Saved([t EXCEPT !.matches = Append(@, m)], <<"ok">>)

\* MatchService.start_match
SvcStartMatch(match) ==
    IF match.status # PENDING
    THEN [match |-> match, out |-> <<"CantStartMatchWithStatus">>]
    ELSE [match |-> [match EXCEPT !.status = ONGOING], out |-> <<"ok">>]

\* the notification loop of the plugin's start_match over match.teams_joined:
\* team.captain of a team find_team_by_id does not find raises AttributeError;
\* build_identifier(None) is the chat backend's: it raises or not (raises)
NotifyJoined(t, match, raises) ==
    IF \E i \in 1..Len(match.teams_joined) : FindTeamById(t, match.teams_joined[i]) = 0
    THEN "AttributeError"
    ELSE IF /\ raises
            /\ \E i \in 1..Len(match.teams_joined) :
                   t.teams[FindTeamById(t, match.teams_joined[i])].captain = None
         THEN "BackendError"
         ELSE "ok"

\* start_match without its status check
StartMatchAnyStatus(t, match_name, raises) ==
    LET mi == FindMatchByName(t, match_name) IN
    IF mi = 0 THEN Refused(t, <<"MatchNotFound">>)
    ELSE IF NotifyJoined(t, t.matches[mi], raises) # "ok"
         THEN Refused(t, <<NotifyJoined(t, t.matches[mi], raises)>>)
    ELSE Saved([t EXCEPT !.matches[mi].status = ONGOING], <<"ok">>)

\* TournamentManagerPlugin.start_match
StartMatch(t, match_name, raises) ==
    LET mi == FindMatchByName(t, match_name) IN
    IF mi = 0 THEN Refused(t, <<"MatchNotFound">>)
    ELSE IF t.matches[mi].status # PENDING THEN Refused(t, <<"CantStartMatch">>)
    ELSE IF NotifyJoined(t, t.matches[mi], raises) # "ok"
         THEN Refused(t, <<NotifyJoined(t, t.matches[mi], raises)>>)
    ELSE Saved([t EXCEPT !.matches[mi].status = ONGOING], <<"ok">>)

\* end_match as if --force were always given
EndMatchAnyStatus(t, match_name, force) ==
    LET mi == FindMatchByName(t, match_name) IN
    IF mi = 0 THEN Refused(t, <<"MatchNotFound">>)
    ELSE Saved([t EXCEPT !.matches[mi].status = COMPLETED], <<"ok">>)

\* end_match ignoring --force
EndMatchUnforced(t, match_name, force) ==
    LET mi == FindMatchByName(t, match_name) IN
    IF mi = 0 THEN Refused(t, <<"MatchNotFound">>)
    ELSE IF t.matches[mi].status # ONGOING THEN Refused(t, <<"CantEndMatch">>)
    ELSE Saved([t EXCEPT !.matches[mi].status = COMPLETED], <<"ok">>)

\* TournamentManagerPlugin.end_match
EndMatch(t, match_name, force) ==
    LET mi == FindMatchByName(t, match_name) IN
    IF mi = 0 THEN Refused(t, <<"MatchNotFound">>)
    ELSE IF t.matches[mi].status # ONGOING /\ ~force
         THEN Refused(t, <<"CantEndMatch">>)
    ELSE Saved([t EXCEPT !.matches[mi].status = COMPLETED], <<"ok">>)

\* str.upper() on the status words the commands are given
Upper(status) ==
    CASE status \in {"pending", "Pending", "PENDING"} -> "PENDING"
      [] status \in {"ongoing", "ONGOING"} -> "ONGOING"
      [] status \in {"completed", "Completed", "COMPLETED"} -> "COMPLETED"
      [] status = "done" -> "DONE"
      [] OTHER -> status

\* hasattr(MatchStatus, name): the members of the enum
HasStatus(name) == name \in MatchStatus

\* set_match_status without status.upper()
SvcSetMatchStatusExact(match, status) ==
    IF ~HasStatus(status)
    THEN [match |-> match, out |-> <<"InvalidMatchStatus">>]
    ELSE [match |-> [match EXCEPT !.status = status], out |-> <<"ok">>]

\* MatchService.set_match_status
SvcSetMatchStatus(match, status) ==
    IF ~HasStatus(Upper(status))
    THEN [match |-> match, out |-> <<"InvalidMatchStatus">>]
    ELSE [match |-> [match EXCEPT !.status = Upper(status)], out |-> <<"ok">>]

\* TournamentManagerPlugin.set_match_status
SetMatchStatus(t, match_name, status) ==
    LET mi == FindMatchByName(t, match_name) IN
    IF mi = 0 THEN Refused(t, <<"MatchNotFound">>)
    ELSE IF ~HasStatus(Upper(status)) THEN Refused(t, <<"InvalidMatchStatus">>)
    ELSE Saved([t EXCEPT !.matches[mi].status = Upper(status)], <<"ok">>)

\* TournamentManagerPlugin.remove_match
RemoveMatch(t, match_name) ==
    LET mi == FindMatchByName(t, match_name) IN
    IF mi = 0 THEN Refused(t, <<"MatchNotFound">>)
    ELSE Saved([t EXCEPT !.matches = ListRemove(@, t.matches[mi])], <<"ok">>)

\* TournamentService.remove_match: in place on the tournament, [t, out]
SvcRemoveMatch(t, match_name) ==
    LET mi == FindMatchByName(t, match_name) IN
    IF mi = 0 THEN [t |-> t, out |-> <<"TournamentMatchNameNotFound">>]
    ELSE [t |-> [t EXCEPT !.matches = ListRemove(@, t.matches[mi])], out |-> <<"ok">>]

\* join_match without its match-group check
SvcJoinMatchAnyTeam(match, team_id) ==
    IF StrOfInt(team_id) \in Range(match.teams_joined)
    THEN [match |-> match, out |-> <<"AlreadyJoined">>]
    ELSE IF match.status # PENDING
    THEN [match |-> match, out |-> <<"CantJoinMatch">>]
    ELSE [match |-> [match EXCEPT !.teams_joined = Append(@, StrOfInt(team_id))],
          out |-> <<"ok">>]

\* join_match without its already-joined checks
SvcJoinMatchAgain(match, team_id) ==
    IF match.id # 0 /\ StrOfInt(team_id) \notin Range(match.teams_registered)
    THEN [match |-> match, out |-> <<"NotInMatchGroup">>]
    ELSE IF match.status # PENDING
    THEN [match |-> match, out |-> <<"CantJoinMatch">>]
    ELSE [match |-> [match EXCEPT !.teams_joined = Append(@, StrOfInt(team_id))],
          out |-> <<"ok">>]

\* MatchService.join_match(match, team_id, team_name), team_id an int
SvcJoinMatch(match, team_id) ==
    IF match.id # 0 /\ StrOfInt(team_id) \notin Range(match.teams_registered)
    THEN [match |-> match, out |-> <<"NotInMatchGroup">>]
    ELSE IF StrOfInt(team_id) \in Range(match.teams_joined)
    THEN [match |-> match, out |-> <<"AlreadyJoined">>]
    ELSE IF match.status # PENDING
    THEN [match |-> match, out |-> <<"CantJoinMatch">>]
    ELSE [match |-> [match EXCEPT !.teams_joined = Append(@, StrOfInt(team_id))],
          out |-> <<"ok">>]

\* join testing the match group by the list alone, not by match.id
JoinByList(t, i, match_name) ==
    LET mi == FindMatchByName(t, match_name)
        team == t.teams[i]
    IN
    IF mi = 0 THEN Refused(t, <<"MatchNotFound">>)
    ELSE IF /\ t.matches[mi].teams_registered # <<>>
            /\ team.id \notin Range(t.matches[mi].teams_registered)
    THEN Refused(t, <<"NotInMatchGroup">>)
    ELSE IF team.id \in Range(t.matches[mi].teams_joined)
    THEN Refused(t, <<"AlreadyJoined">>)
    ELSE IF t.matches[mi].status # PENDING THEN Refused(t, <<"CantJoinMatch">>)
    ELSE Saved([t EXCEPT !.matches[mi].teams_joined = Append(@, team.id)], <<"ok">>)

\* TournamentManagerPlugin.join, after _find_captain_team gave team index i of t
Join(t, i, match_name) ==
    LET mi == FindMatchByName(t, match_name)
        team == t.teams[i]
    IN
    IF mi = 0 THEN Refused(t, <<"MatchNotFound">>)
    ELSE IF t.matches[mi].id # 0 /\ team.id \notin Range(t.matches[mi].teams_registered)
    THEN Refused(t, <<"NotInMatchGroup">>)
    ELSE IF team.id \in Range(t.matches[mi].teams_joined)
    THEN Refused(t, <<"AlreadyJoined">>)
    ELSE IF t.matches[mi].status # PENDING THEN Refused(t, <<"CantJoinMatch">>)
    ELSE Saved([t EXCEPT !.matches[mi].teams_joined = Append(@, team.id)], <<"ok">>)

\* leave without its status check
LeaveAnyStatus(t, i, match_name) ==
    LET mi == FindMatchByName(t, match_name)
        team == t.teams[i]
    IN
    IF mi = 0 THEN Refused(t, <<"MatchNotFound">>)
    ELSE IF team.id \notin Range(t.matches[mi].teams_joined)
    THEN Refused(t, <<"NotInMatch">>)
    ELSE Saved([t EXCEPT !.matches[mi].teams_joined = ListRemove(@, team.id)], <<"ok">>)

\* leave popping the first joined team instead of removing the captain's
LeavePoppingFirst(t, i, match_name) ==
    LET mi == FindMatchByName(t, match_name)
        team == t.teams[i]
    IN
    IF mi = 0 THEN Refused(t, <<"MatchNotFound">>)
    ELSE IF team.id \notin Range(t.matches[mi].teams_joined)
    THEN Refused(t, <<"NotInMatch">>)
    ELSE IF t.matches[mi].status # PENDING THEN Refused(t, <<"CantLeaveMatch">>)
    ELSE Saved([t EXCEPT !.matches[mi].teams_joined = Tail(@)], <<"ok">>)

\* TournamentManagerPlugin.leave, after _find_captain_team gave team index i of t
Leave(t, i, match_name) ==
    LET mi == FindMatchByName(t, match_name)
        team == t.teams[i]
    IN
    IF mi = 0 THEN Refused(t, <<"MatchNotFound">>)
    ELSE IF team.id \notin Range(t.matches[mi].teams_joined)
    THEN Refused(t, <<"NotInMatch">>)
    ELSE IF t.matches[mi].status # PENDING THEN Refused(t, <<"CantLeaveMatch">>)
    ELSE Saved([t EXCEPT !.matches[mi].teams_joined = ListRemove(@, team.id)], <<"ok">>)

\* the commands a captain sends: `_find_captain_team(msg.frm.fullname, tournaments)`
\* then the handler on that captain's tournament, saved under its alias
OnCaptain(store, frm, Handler(_, _)) ==
    LET c == FindCaptainTeam(frm, store) IN
    IF c.k = 0 THEN [store |-> store, out |-> <<"NotCaptain">>]
    ELSE LET r == Handler(store[c.k], c.i) IN
         [store |-> IF r.save THEN [store EXCEPT ![c.k] = r.t] ELSE store,
          out |-> r.out]

----------------------------------------------------------------------------
(* Score submissions: TournamentService and the attachment handler *)

\* submit_score without its already-submitted check
SvcSubmitScoreAgain(t, match_name, team_id, urls, position, eliminations) ==
    LET mi == FindMatchByName(t, match_name)
        ti == FindTeamById(t, StrOfInt(team_id))
    IN
    IF mi = 0 THEN [t |-> t, out |-> <<"TournamentMatchNameNotFound">>]
    ELSE IF ti = 0 THEN [t |-> t, out |-> <<"TournamentTeamIDNotFound">>]
    ELSE IF /\ t.matches[mi].id # 0
            /\ t.teams[ti].id \notin Range(t.matches[mi].teams_registered)
    THEN [t |-> t, out |-> <<"NotRegistered">>]
    ELSE IF t.matches[mi].status = COMPLETED THEN [t |-> t, out |-> <<"MatchLocked">>]
    ELSE [t |-> [t EXCEPT !.teams[ti].score_submissions =
                     Append(@, ScoreSubmission(t.matches[mi].name, t.teams[ti].name,
                                               urls, position, eliminations))],
          out |-> <<"ok">>]

\* TournamentService.submit_score, in place on the tournament: [t, out]
SvcSubmitScore(t, match_name, team_id, urls, position, eliminations) ==
    LET mi == FindMatchByName(t, match_name)
        ti == FindTeamById(t, StrOfInt(team_id))
    IN
    IF mi = 0 THEN [t |-> t, out |-> <<"TournamentMatchNameNotFound">>]
    ELSE IF ti = 0 THEN [t |-> t, out |-> <<"TournamentTeamIDNotFound">>]
    ELSE IF /\ t.matches[mi].id # 0
            /\ t.teams[ti].id \notin Range(t.matches[mi].teams_registered)
    THEN [t |-> t, out |-> <<"NotRegistered">>]
    ELSE IF t.matches[mi].status = COMPLETED THEN [t |-> t, out |-> <<"MatchLocked">>]
    ELSE IF FindSubmissionByMatch(t.teams[ti], t.matches[mi].name) # 0
    THEN [t |-> t, out |-> <<"AlreadySubmitted">>]
    ELSE [t |-> [t EXCEPT !.teams[ti].score_submissions =
                     Append(@, ScoreSubmission(t.matches[mi].name, t.teams[ti].name,
                                               urls, position, eliminations))],
          out |-> <<"ok">>]

\* add_screenshot without its COMPLETED check
SvcAddScreenshotUnlocked(t, match_name, team_id, urls, clock) ==
    LET mi == FindMatchByName(t, match_name)
        ti == FindTeamById(t, StrOfInt(team_id))
    IN
    IF mi = 0 THEN [t |-> t, out |-> <<"TournamentMatchNameNotFound">>]
    ELSE IF ti = 0 THEN [t |-> t, out |-> <<"TournamentTeamIDNotFound">>]
    ELSE LET si == FindSubmissionByMatch(t.teams[ti], t.matches[mi].name) IN
         IF si = 0 THEN [t |-> t, out |-> <<"NoSubmissionFound">>]
         ELSE [t |-> [t EXCEPT
                        !.teams[ti].score_submissions[si].screenshot_links = @ \o urls,
                        !.teams[ti].score_submissions[si].updated_at = clock],
               out |-> <<"ok">>]

\* add_screenshot assigning the new links instead of extending the list
SvcAddScreenshotReplacing(t, match_name, team_id, urls, clock) ==
    LET mi == FindMatchByName(t, match_name)
        ti == FindTeamById(t, StrOfInt(team_id))
    IN
    IF mi = 0 THEN [t |-> t, out |-> <<"TournamentMatchNameNotFound">>]
    ELSE IF ti = 0 THEN [t |-> t, out |-> <<"TournamentTeamIDNotFound">>]
    ELSE IF t.matches[mi].status = COMPLETED THEN [t |-> t, out |-> <<"MatchLocked">>]
    ELSE LET si == FindSubmissionByMatch(t.teams[ti], t.matches[mi].name) IN
         IF si = 0 THEN [t |-> t, out |-> <<"NoSubmissionFound">>]
         ELSE [t |-> [t EXCEPT
                        !.teams[ti].score_submissions[si].screenshot_links = urls,
                        !.teams[ti].score_submissions[si].updated_at = clock],
               out |-> <<"ok">>]

\* TournamentService.add_screenshot, in place on the tournament: [t, out]
SvcAddScreenshot(t, match_name, team_id, urls, clock) ==
    LET mi == FindMatchByName(t, match_name)
        ti == FindTeamById(t, StrOfInt(team_id))
    IN
    IF mi = 0 THEN [t |-> t, out |-> <<"TournamentMatchNameNotFound">>]
    ELSE IF ti = 0 THEN [t |-> t, out |-> <<"TournamentTeamIDNotFound">>]
    ELSE IF t.matches[mi].status = COMPLETED THEN [t |-> t, out |-> <<"MatchLocked">>]
    ELSE LET si == FindSubmissionByMatch(t.teams[ti], t.matches[mi].name) IN
         IF si = 0 THEN [t |-> t, out |-> <<"NoSubmissionFound">>]
         ELSE [t |-> [t EXCEPT
                        !.teams[ti].score_submissions[si].screenshot_links = @ \o urls,
                        !.teams[ti].score_submissions[si].updated_at = clock],
               out |-> <<"ok">>]

\* str.isdigit() and int() on the words of a message
IsDigit(w) == w \in {ToString(n) : n \in 0..9}

\* callback_attachment, `!submit` branch, for the captain's team i of t
AttachmentSubmit(t, i, msg, urls) ==
    IF Len(msg) # 6 THEN Refused(t, <<"InvalidFormat">>)
    ELSE
    LET match_name == msg[2]
        position == msg[4]
        eliminations == msg[6]
        mi == FindMatchByName(t, match_name)
        team == t.teams[i]
    IN
    IF mi = 0 THEN Refused(t, <<"MatchNotFound">>)
    ELSE
    \* the not-registered reply is sent and the handler goes on
    LET sent == IF /\ t.matches[mi].id # 0
                   /\ team.id \notin Range(t.matches[mi].teams_registered)
                THEN <<"NotRegistered">> ELSE <<>>
    IN
    IF ~IsDigit(position) \/ ~IsDigit(eliminations)
    THEN Refused(t, sent \o <<"InvalidEntry">>)
    ELSE IF t.matches[mi].status = COMPLETED THEN Refused(t, sent \o <<"MatchLocked">>)
    ELSE IF FindSubmissionByMatch(team, match_name) # 0
    THEN Refused(t, sent \o <<"AlreadySubmitted">>)
    ELSE Saved([t EXCEPT !.teams[i].score_submissions =
                   Append(@, ScoreSubmission(match_name, team.name, urls,
                                             IntOfStr(position), IntOfStr(eliminations)))],
               sent \o <<"ok">>)

\* the `!add screenshot` branch creating the submission it does not find
AttachmentAddScreenshotCreating(t, i, msg, urls, clock) ==
    IF Len(msg) \notin {2, 3} THEN Refused(t, <<"InvalidFormat">>)
    ELSE
    LET match_name == IF Len(msg) = 3 THEN msg[3] ELSE msg[2]
        mi == FindMatchByName(t, match_name)
        si == FindSubmissionByMatch(t.teams[i], match_name)
    IN
    IF mi = 0 THEN Refused(t, <<"MatchNotFound">>)
    ELSE IF t.matches[mi].status = COMPLETED THEN Refused(t, <<"MatchLocked">>)
    ELSE IF si = 0
    THEN Saved([t EXCEPT !.teams[i].score_submissions =
                   Append(@, ScoreSubmission(match_name, t.teams[i].name, urls, None, None))],
               <<"ok">>)
    ELSE Saved([t EXCEPT !.teams[i].score_submissions[si].screenshot_links = @ \o urls,
                         !.teams[i].score_submissions[si].updated_at = clock],
               <<"ok">>)

\* callback_attachment, `!add screenshot` branch, for the captain's team i of t
AttachmentAddScreenshot(t, i, msg, urls, clock) ==
    IF Len(msg) \notin {2, 3} THEN Refused(t, <<"InvalidFormat">>)
    ELSE
    LET match_name == IF Len(msg) = 3 THEN msg[3] ELSE msg[2]
        mi == FindMatchByName(t, match_name)
        si == FindSubmissionByMatch(t.teams[i], match_name)
    IN
    IF mi = 0 THEN Refused(t, <<"MatchNotFound">>)
    ELSE IF t.matches[mi].status = COMPLETED THEN Refused(t, <<"MatchLocked">>)
    \* the no-submission reply is sent and score.screenshot_links of None raises
    ELSE IF si = 0 THEN Refused(t, <<"NoSubmissionFound", "AttributeError">>)
    ELSE Saved([t EXCEPT !.teams[i].score_submissions[si].screenshot_links = @ \o urls,
                         !.teams[i].score_submissions[si].updated_at = clock],
               <<"ok">>)

\* TournamentManagerPlugin.callback_attachment: msg is msg.body.strip().split(" "),
\* urls the attachments' urls
CallbackAttachment(store, frm, msg, urls, clock) ==
    IF msg[1] \notin {"!submit", "!add", "!add_screenshot"}
    THEN [store |-> store, out |-> <<"UnknownAttachment">>]
    ELSE
    LET c == FindCaptainTeam(frm, store) IN
    IF c.k = 0 THEN [store |-> store, out |-> <<"NotCaptain">>]
    ELSE IF msg[1] = "!submit"
    THEN LET r == AttachmentSubmit(store[c.k], c.i, msg, urls) IN
         [store |-> IF r.save THEN [store EXCEPT ![c.k] = r.t] ELSE store, out |-> r.out]
    ELSE IF msg[1] = "!add" /\ Len(msg) = 1
    THEN [store |-> store, out |-> <<"IndexError">>]
    ELSE IF (msg[1] = "!add" /\ msg[2] = "screenshot") \/ msg[1] = "!add_screenshot"
    THEN LET r == AttachmentAddScreenshot(store[c.k], c.i, msg, urls, clock) IN
         [store |-> IF r.save THEN [store EXCEPT ![c.k] = r.t] ELSE store, out |-> r.out]
    ELSE [store |-> store, out |-> <<"Ignored">>]

\* remove_score clearing the team's submissions instead of removing one
RemoveScoreAll(t, i, match_name) ==
    LET mi == FindMatchByName(t, match_name)
        si == FindSubmissionByMatch(t.teams[i], match_name)
    IN
    IF mi = 0 THEN Refused(t, <<"MatchNotFound">>)
    ELSE IF t.matches[mi].status = COMPLETED THEN Refused(t, <<"MatchLocked">>)
    ELSE IF si = 0 THEN Refused(t, <<"NoScoreFound">>)
    ELSE Saved([t EXCEPT !.teams[i].score_submissions = <<>>], <<"ok">>)

\* TournamentManagerPlugin.remove_score, for the captain's team i of t
RemoveScore(t, i, match_name) ==
    LET mi == FindMatchByName(t, match_name)
        si == FindSubmissionByMatch(t.teams[i], match_name)
    IN
    IF mi = 0 THEN Refused(t, <<"MatchNotFound">>)
    ELSE IF t.matches[mi].status = COMPLETED THEN Refused(t, <<"MatchLocked">>)
    ELSE IF si = 0 THEN Refused(t, <<"NoScoreFound">>)
    ELSE Saved([t EXCEPT !.teams[i].score_submissions =
                   ListRemove(@, t.teams[i].score_submissions[si])], <<"ok">>)

----------------------------------------------------------------------------
(* Actions: one per handler.  A call that changes nothing is a stuttering *)
(* step; `completed` collects the matches seen COMPLETED.                  *)

Call(r) ==
    /\ tournaments' = r.store
    /\ completed' = completed \cup
           UNION {{<<r.store[k].alias, r.store[k].matches[mi].name>> :
                      mi \in {mi \in 1..Len(r.store[k].matches) :
                                 r.store[k].matches[mi].status = COMPLETED}} :
                  k \in 1..Len(r.store)}
    /\ UNCHANGED <<now, threads>>

\* a service call made on the tournament object held under position k
SvcCall(k, r) ==
    Call([store |-> [tournaments EXCEPT ![k] = r.t], out |-> r.out])

\* a service call made on match mi of the tournament under position k
MatchCall(k, mi, r) ==
    Call([store |-> [tournaments EXCEPT ![k].matches[mi] = r.match], out |-> r.out])

\* the plugin commands on the store: [store, out]
CmdCreateMatch(store, alias, match_name, match_id, info) ==
    OnAlias(store, alias, LAMBDA t : CreateMatch(t, match_name, Password, match_id, info))

CmdStartMatch(store, alias, match_name, raises) ==
    OnAlias(store, alias, LAMBDA t : StartMatch(t, match_name, raises))

CmdEndMatch(store, alias, match_name, force) ==
    OnAlias(store, alias, LAMBDA t : EndMatch(t, match_name, force))

CmdSetMatchStatus(store, alias, match_name, status) ==
    OnAlias(store, alias, LAMBDA t : SetMatchStatus(t, match_name, status))

CmdRemoveMatch(store, alias, match_name) ==
    OnAlias(store, alias, LAMBDA t : RemoveMatch(t, match_name))

CmdJoin(store, frm, match_name) ==
    OnCaptain(store, frm, LAMBDA t, i : Join(t, i, match_name))

CmdLeave(store, frm, match_name) ==
    OnCaptain(store, frm, LAMBDA t, i : Leave(t, i, match_name))

CmdRemoveScore(store, frm, match_name) ==
    OnCaptain(store, frm, LAMBDA t, i : RemoveScore(t, i, match_name))

DoCreateMatch(alias, match_name, match_id, info) ==
    Call(CmdCreateMatch(tournaments, alias, match_name, match_id, info))

DoStartMatch(alias, match_name, raises) ==
    Call(CmdStartMatch(tournaments, alias, match_name, raises))

DoSvcStartMatch(k, mi) ==
    MatchCall(k, mi, SvcStartMatch(tournaments[k].matches[mi]))

DoEndMatch(alias, match_name, force) ==
    Call(CmdEndMatch(tournaments, alias, match_name, force))

DoSetMatchStatus(alias, match_name, status) ==
    Call(CmdSetMatchStatus(tournaments, alias, match_name, status))

DoSvcSetMatchStatus(k, mi, status) ==
    MatchCall(k, mi, SvcSetMatchStatus(tournaments[k].matches[mi], status))

DoRemoveMatch(alias, match_name) ==
    Call(CmdRemoveMatch(tournaments, alias, match_name))

DoSvcRemoveMatch(k, match_name) ==
    SvcCall(k, SvcRemoveMatch(tournaments[k], match_name))

DoJoin(frm, match_name) ==
    Call(CmdJoin(tournaments, frm, match_name))

DoSvcJoinMatch(k, mi, team_id) ==
    MatchCall(k, mi, SvcJoinMatch(tournaments[k].matches[mi], team_id))

DoLeave(frm, match_name) ==
    Call(CmdLeave(tournaments, frm, match_name))

\* no submission grows past MaxLinks screenshot links
LinksBounded(store) ==
    \A k \in 1..Len(store) : \A i \in 1..Len(store[k].teams) :
        \A si \in 1..Len(store[k].teams[i].score_submissions) :
            Len(store[k].teams[i].score_submissions[si].screenshot_links) <= MaxLinks

DoCallbackAttachment(frm, msg, urls) ==
    /\ LinksBounded(CallbackAttachment(tournaments, frm, msg, urls, now).store)
    /\ Call(CallbackAttachment(tournaments, frm, msg, urls, now))

DoSvcSubmitScore(k, match_name, team_id, urls, position, eliminations) ==
    SvcCall(k, SvcSubmitScore(tournaments[k], match_name, team_id, urls,
                              position, eliminations))

DoSvcAddScreenshot(k, match_name, team_id, urls) ==
    /\ LinksBounded(<<SvcAddScreenshot(tournaments[k], match_name, team_id, urls, now).t>>)
    /\ SvcCall(k, SvcAddScreenshot(tournaments[k], match_name, team_id, urls, now))

DoRemoveScore(frm, match_name) ==
    Call(CmdRemoveScore(tournaments, frm, match_name))

----------------------------------------------------------------------------
(* Inputs *)

Aliases == {"a1", "a2"}
TeamIdArgs == {1, 2, 3}
MatchIdArgs == {0, 7}

\* an opponent of a provider match: its slot number and the participant in it
Opponent(number, id) == [number |-> number, participant |-> [id |-> id]]

\* the provider's get_match answers
MatchInfos ==
    {EmptyDict} \cup
    {[public_notes |-> "g1", opponents |-> o] :
        o \in {<<>>, <<Opponent(1, "1")>>, <<Opponent(1, "1"), Opponent(2, "2")>>}}

StatusWords == {"pending", "ONGOING", "Completed", "done"}

\* the message bodies sent with an attachment, split into words
SubmitMsg(m, position) == <<"!submit", m, "position", position, "eliminations", "0">>
AddScreenshotMsgs(m) == {<<"!add", "screenshot", m>>, <<"!add_screenshot", m>>}

AttachmentMessages ==
    {SubmitMsg(m, p) : m \in MatchNames, p \in {"1", "x"}}
    \cup UNION {AddScreenshotMsgs(m) : m \in MatchNames}
    \cup {<<"!submit", "m1">>, <<"!add">>, <<"!add", "more">>, <<"thanks">>}

\* the attachment urls sent with a message
UrlsOf(msg) == IF msg[1] = "!submit" THEN <<"s1">> ELSE <<"s2">>

ProviderInfo(tournament_id) == [id |-> tournament_id, name |-> "n1"]

Participant(id, name) == [id |-> id, name |-> name, custom_fields |-> <<>>]

\* the store after `!add tournament a1 1` found participants "1" and "2" and
\* u1 and u2 linked themselves to them
LinkedTournament ==
    LET t == Tournament(1, "a1", ProviderInfo(1),
                        <<TeamFromDict(Participant("1", "A")),
                          TeamFromDict(Participant("2", "B"))>>)
    IN  [t EXCEPT !.teams[1].captain = "u1", !.teams[2].captain = "u2"]

----------------------------------------------------------------------------
(* Spec: the match state machine, on one tournament with two linked teams *)

Init ==
    /\ tournaments = <<LinkedTournament>>
    /\ now = LoadTime
    /\ completed = {}
    /\ threads = <<>>

Next ==
    \/ \E a \in Aliases, m \in MatchNames, id \in MatchIdArgs, info \in MatchInfos :
           DoCreateMatch(a, m, id, info)
    \/ \E a \in Aliases, m \in MatchNames, raises \in BOOLEAN : DoStartMatch(a, m, raises)
    \/ \E k \in 1..Len(tournaments) : \E mi \in 1..Len(tournaments[k].matches) :
           DoSvcStartMatch(k, mi)
    \/ \E a \in Aliases, m \in MatchNames, force \in BOOLEAN : DoEndMatch(a, m, force)
    \/ \E a \in Aliases, m \in MatchNames, w \in StatusWords : DoSetMatchStatus(a, m, w)
    \/ \E k \in 1..Len(tournaments) : \E mi \in 1..Len(tournaments[k].matches) :
           \E w \in StatusWords : DoSvcSetMatchStatus(k, mi, w)
    \/ \E a \in Aliases, m \in MatchNames : DoRemoveMatch(a, m)
    \/ \E k \in 1..Len(tournaments), m \in MatchNames : DoSvcRemoveMatch(k, m)
    \/ \E u \in Users, m \in MatchNames : DoJoin(u, m)
    \/ \E k \in 1..Len(tournaments) : \E mi \in 1..Len(tournaments[k].matches) :
           \E id \in TeamIdArgs : DoSvcJoinMatch(k, mi, id)
    \/ \E u \in Users, m \in MatchNames : DoLeave(u, m)

Spec == Init /\ [][Next]_vars

----------------------------------------------------------------------------
(* SpecScore: the score submission workflow on the same tournament *)

NextScore ==
    \/ \E a \in Aliases, m \in MatchNames : DoCreateMatch(a, m, 0, EmptyDict)
    \/ \E a \in Aliases, m \in MatchNames : DoStartMatch(a, m, TRUE)
    \/ \E a \in Aliases, m \in MatchNames, force \in BOOLEAN : DoEndMatch(a, m, force)
    \/ \E a \in Aliases, m \in MatchNames, w \in StatusWords : DoSetMatchStatus(a, m, w)
    \/ \E a \in Aliases, m \in MatchNames : DoRemoveMatch(a, m)
    \/ \E u \in Users, msg \in AttachmentMessages :
           DoCallbackAttachment(u, msg, UrlsOf(msg))
    \/ \E k \in 1..Len(tournaments), m \in MatchNames, id \in TeamIdArgs :
           DoSvcSubmitScore(k, m, id, <<"s1">>, 1, 0)
    \/ \E k \in 1..Len(tournaments), m \in MatchNames, id \in TeamIdArgs :
           DoSvcAddScreenshot(k, m, id, <<"s2">>)
    \/ \E u \in Users, m \in MatchNames : DoRemoveScore(u, m)

SpecScore == Init /\ [][NextScore]_vars

----------------------------------------------------------------------------
(* Properties of the match state machine and of the score workflow *)

\* status of the match named m in the tournament at position k, None when absent
StatusOf(store, k, m) ==
    LET mi == FindMatchByName(store[k], m) IN
    IF mi = 0 THEN None ELSE store[k].matches[mi].status

\* the status changes start_match and end_match (no --force) may make
NormalChanges ==
    {<<s, s>> : s \in MatchStatus \cup {None}} \cup {<<PENDING, ONGOING>>, <<ONGOING, COMPLETED>>}

\* C1: start_match and end_match without --force move a match only
\* PENDING -> ONGOING and ONGOING -> COMPLETED: start_match succeeds only from
\* PENDING, end_match only from ONGOING (on a PENDING match it is refused and the
\* status stays PENDING), a refused call changes nothing, and no match changes
\* in any other way.
C1_NormalTransitions ==
    \A k \in 1..Len(tournaments), m \in MatchNames, raises \in BOOLEAN :
        LET a == tournaments[k].alias
            st == StatusOf(tournaments, k, m)
            start == CmdStartMatch(tournaments, a, m, raises)
            end == CmdEndMatch(tournaments, a, m, FALSE)
        IN  st # None =>
            /\ Done(start.out) => st = PENDING /\ StatusOf(start.store, k, m) = ONGOING
            /\ ~Done(start.out) => start.store = tournaments
            /\ Done(end.out) => st = ONGOING /\ StatusOf(end.store, k, m) = COMPLETED
            /\ ~Done(end.out) => end.store = tournaments
            /\ st = PENDING => end.out = <<"CantEndMatch">>
            /\ st = COMPLETED => Failed(start.out) /\ Failed(end.out)
            /\ \A m2 \in MatchNames :
                   /\ <<StatusOf(tournaments, k, m2), StatusOf(start.store, k, m2)>>
                          \in NormalChanges
                   /\ <<StatusOf(tournaments, k, m2), StatusOf(end.store, k, m2)>>
                          \in NormalChanges
            /\ LET match == tournaments[k].matches[FindMatchByName(tournaments[k], m)]
                   r == SvcStartMatch(match)
               IN  /\ Done(r.out) => st = PENDING /\ r.match.status = ONGOING
                   /\ ~Done(r.out) => r.match = match
                   /\ <<st, r.match.status>> \in NormalChanges

\* a tournament holds an ONGOING match that end_match completes and a PENDING
\* match, with a team joined, that start_match starts and end_match refuses
C1_Witness ==
    \E k \in 1..Len(tournaments), m1, m2 \in MatchNames :
        LET a == tournaments[k].alias IN
        /\ StatusOf(tournaments, k, m1) = ONGOING
        /\ Ok(CmdEndMatch(tournaments, a, m1, FALSE).out)
        /\ StatusOf(tournaments, k, m2) = PENDING
        /\ tournaments[k].matches[FindMatchByName(tournaments[k], m2)].teams_joined # <<>>
        /\ Ok(CmdStartMatch(tournaments, a, m2, FALSE).out)
        /\ CmdEndMatch(tournaments, a, m2, FALSE).out = <<"CantEndMatch">>

\* every scoring call aimed at match m of the tournament at position k:
\* the service calls for every team id, the captains' commands for every user
ScoringCalls(store, k, m, clock) ==
    {[store |-> [store EXCEPT ![k] = r.t], out |-> r.out] :
        r \in {SvcSubmitScore(store[k], m, id, <<"s1">>, 1, 0) : id \in TeamIdArgs}
              \cup {SvcAddScreenshot(store[k], m, id, <<"s2">>, clock) : id \in TeamIdArgs}}
    \cup {CallbackAttachment(store, frm, msg, UrlsOf(msg), clock) :
             frm \in {u \in Users : FindCaptainTeam(u, store).k = k},
             msg \in {SubmitMsg(m, "1")} \cup AddScreenshotMsgs(m)}
    \cup {CmdRemoveScore(store, frm, m) :
             frm \in {u \in Users : FindCaptainTeam(u, store).k = k}}

\* C2: while a match is COMPLETED, submit_score, add_screenshot and remove_score
\* for it fail for every team and leave every team's score_submissions as they
\* were.
C2_CompletedMatchIsLocked ==
    \A k \in 1..Len(tournaments), m \in MatchNames :
        StatusOf(tournaments, k, m) = COMPLETED =>
            \A r \in ScoringCalls(tournaments, k, m, now) :
                /\ Failed(r.out)
                /\ ~Done(r.out)
                /\ r.store[k].teams = tournaments[k].teams

\* a COMPLETED match for which a team holds a submission with two screenshots:
\* the service's add_screenshot and the captain's remove_score are both refused
C2_Witness ==
    \E k \in 1..Len(tournaments), m \in MatchNames, frm \in Users :
        LET c == FindCaptainTeam(frm, tournaments) IN
        /\ StatusOf(tournaments, k, m) = COMPLETED
        /\ c.k = k
        /\ LET team == tournaments[k].teams[c.i]
               si == FindSubmissionByMatch(team, m)
           IN  /\ si # 0
               /\ Len(team.score_submissions[si].screenshot_links) = 2
               /\ SvcAddScreenshot(tournaments[k], m, IntOfStr(team.id), <<"s2">>, now).out
                      = <<"MatchLocked">>
               /\ CmdRemoveScore(tournaments, frm, m).out = <<"MatchLocked">>

\* no scoring call aimed at match m succeeds
Locked(store, k, m, clock) == \A r \in ScoringCalls(store, k, m, clock) : ~Done(r.out)

\* C3 as stated: once a match has been COMPLETED, no later submit_score,
\* add_screenshot or remove_score for that match name ever succeeds.
C3_PermanentlyLocked ==
    \A k \in 1..Len(tournaments), m \in MatchNames :
        <<tournaments[k].alias, m>> \in completed => Locked(tournaments, k, m, now)

\* every call other than set_match_status and remove_match, with every input
OrdinaryCalls(store, clock) ==
    {CmdCreateMatch(store, a, m, 0, EmptyDict) : a \in Aliases, m \in MatchNames}
    \cup {CmdStartMatch(store, a, m, raises) :
             a \in Aliases, m \in MatchNames, raises \in BOOLEAN}
    \cup {CmdEndMatch(store, a, m, force) :
             a \in Aliases, m \in MatchNames, force \in BOOLEAN}
    \cup {CallbackAttachment(store, frm, msg, UrlsOf(msg), clock) :
             frm \in Users, msg \in AttachmentMessages}
    \cup {CmdRemoveScore(store, frm, m) : frm \in Users, m \in MatchNames}
    \cup UNION {{[store |-> [store EXCEPT ![k] = r.t], out |-> r.out] :
                    r \in {SvcSubmitScore(store[k], m, id, <<"s1">>, 1, 0) :
                              m \in MatchNames, id \in TeamIdArgs}
                          \cup {SvcAddScreenshot(store[k], m, id, <<"s2">>, clock) :
                                   m \in MatchNames, id \in TeamIdArgs}} :
                k \in 1..Len(store)}

\* C3, amended: a COMPLETED match is locked, and it stays COMPLETED (hence
\* locked) through every operation other than the administrator's
\* set_match_status and remove_match.
C3_LockedUntilAdminUnlocks ==
    \A k \in 1..Len(tournaments), m \in MatchNames :
        StatusOf(tournaments, k, m) = COMPLETED =>
            /\ Locked(tournaments, k, m, now)
            /\ \A r \in OrdinaryCalls(tournaments, now) :
                   StatusOf(r.store, k, m) = COMPLETED

\* a match that was COMPLETED, holds a submission, and is still COMPLETED: the
\* captain's submit and the start and forced end of the match leave it so
C3_Witness ==
    \E k \in 1..Len(tournaments), m \in MatchNames :
        LET a == tournaments[k].alias IN
        /\ <<a, m>> \in completed
        /\ StatusOf(tournaments, k, m) = COMPLETED
        /\ \E i \in 1..Len(tournaments[k].teams) :
               FindSubmissionByMatch(tournaments[k].teams[i], m) # 0
        /\ CmdStartMatch(tournaments, a, m, FALSE).out = <<"CantStartMatch">>
        /\ Ok(CmdEndMatch(tournaments, a, m, TRUE).out)
        /\ StatusOf(CmdEndMatch(tournaments, a, m, TRUE).store, k, m) = COMPLETED

----------------------------------------------------------------------------
(* Captaincy: link, link_team_captain, unlink *)

\* TournamentManagerPlugin.link; discord_fails: the nickname or role update of
\* _add_discord_team_captain raises inside the `with self.mutable` block
Link(store, frm, alias, team_name, discord_fails) ==
    LET c == FindCaptainTeam(frm, store) IN
    IF AliasIndex(store, alias) = 0 THEN [store |-> store, out |-> <<"TournamentNotFound">>]
    ELSE IF c.k # 0
    THEN IF store[c.k].teams[c.i].name = team_name
         THEN [store |-> store, out |-> <<"AlreadyLinked">>]
         ELSE [store |-> store, out |-> <<"AttributeError">>]
    ELSE OnAlias(store, alias, LAMBDA t :
             LET i == FindTeamByName(t, team_name) IN
             IF i = 0 THEN Refused(t, <<"TeamNotFound">>)
             ELSE IF t.teams[i].captain # None THEN Refused(t, <<"TeamCaptainExists">>)
             ELSE IF discord_fails THEN [t |-> t, save |-> FALSE, out |-> <<"DiscordError">>]
             ELSE Saved([t EXCEPT !.teams[i].captain = frm], <<"ok">>))

\* the `with self.mutable` block of TournamentManagerPlugin.link_team_captain:
\* the team's captain is replaced, whoever it was
LinkTeamCaptainBlock(store, alias, team_id, discord_user, discord_fails) ==
    OnAlias(store, alias, LAMBDA t :
        LET i == FindTeamById(t, StrOfInt(team_id)) IN
        IF i = 0 THEN Refused(t, <<"TeamNotFound">>)
        ELSE IF discord_fails THEN [t |-> t, save |-> FALSE, out |-> <<"DiscordError">>]
        ELSE Saved([t EXCEPT !.teams[i].captain = discord_user], <<"ok">>))

\* TournamentManagerPlugin.link_team_captain; user_found: build_identifier
\* resolved discord_user
LinkTeamCaptain(store, alias, team_id, discord_user, user_found, discord_fails) ==
    IF AliasIndex(store, alias) = 0 THEN [store |-> store, out |-> <<"TournamentNotFound">>]
    ELSE IF ~user_found THEN [store |-> store, out |-> <<"UserNotFound">>]
    ELSE IF FindCaptainTeam(discord_user, store).k # 0
    THEN [store |-> store, out |-> <<"AlreadyCaptain">>]
    ELSE LinkTeamCaptainBlock(store, alias, team_id, discord_user, discord_fails)

\* TournamentManagerPlugin.unlink
Unlink(store, frm, team_name, discord_fails) ==
    OnCaptain(store, frm, LAMBDA t, i :
        IF t.teams[i].name # team_name THEN Refused(t, <<"NameMismatch">>)
        ELSE IF discord_fails THEN [t |-> t, save |-> FALSE, out |-> <<"DiscordError">>]
        ELSE Saved([t EXCEPT !.teams[i].captain = None], <<"ok">>))

\* TournamentService.link_team_captain, in place on the tournament: [t, out]
SvcLinkTeamCaptain(t, team_name, captain_name) ==
    LET i == FindTeamByName(t, team_name) IN
    IF i = 0 THEN [t |-> t, out |-> <<"TournamentTeamNameNotFound">>]
    ELSE IF t.teams[i].captain # None THEN [t |-> t, out |-> <<"TournamentTeamCaptainExists">>]
    ELSE [t |-> [t EXCEPT !.teams[i].captain = captain_name], out |-> <<"ok">>]

DoLink(frm, alias, team_name, discord_fails) ==
    Call(Link(tournaments, frm, alias, team_name, discord_fails))

DoLinkTeamCaptain(alias, team_id, discord_user, user_found, discord_fails) ==
    Call(LinkTeamCaptain(tournaments, alias, team_id, discord_user, user_found,
                         discord_fails))

DoUnlink(frm, team_name, discord_fails) ==
    Call(Unlink(tournaments, frm, team_name, discord_fails))

DoSvcLinkTeamCaptain(k, team_name, captain_name) ==
    /\ k \in 1..Len(tournaments)
    /\ SvcCall(k, SvcLinkTeamCaptain(tournaments[k], team_name, captain_name))

TeamNames == {"A", "B", "C"}
LinkTeamIdArgs == {1, 2, 3, 4}

\* the store after `!add tournament a1 1` and `!add tournament a2 2`: the first
\* has participants A and B, the second has its own A and C; nobody is linked
UnlinkedTournaments ==
    <<Tournament(1, "a1", ProviderInfo(1),
                 <<TeamFromDict(Participant("1", "A")), TeamFromDict(Participant("2", "B"))>>),
      Tournament(2, "a2", ProviderInfo(2),
                 <<TeamFromDict(Participant("3", "A")), TeamFromDict(Participant("4", "C"))>>)>>

InitLink ==
    /\ tournaments = UnlinkedTournaments
    /\ now = LoadTime
    /\ completed = {}
    /\ threads = <<>>

NextLink ==
    \/ \E frm \in Users, a \in Aliases, n \in TeamNames, f \in BOOLEAN : DoLink(frm, a, n, f)
    \/ \E a \in Aliases, id \in LinkTeamIdArgs, u \in Users, found \in BOOLEAN, f \in BOOLEAN :
           DoLinkTeamCaptain(a, id, u, found, f)
    \/ \E frm \in Users, n \in TeamNames, f \in BOOLEAN : DoUnlink(frm, n, f)
    \/ \E k \in 1..Len(tournaments), n \in TeamNames, u \in Users :
           DoSvcLinkTeamCaptain(k, n, u)

SpecLink == InitLink /\ [][NextLink]_vars

\* the teams, as <<tournament position, team position>>, that username captains
TeamsOfCaptain(store, username) ==
    UNION {{<<k, i>> : i \in {i \in 1..Len(store[k].teams) :
                                  store[k].teams[i].captain = username}} :
           k \in 1..Len(store)}

\* every way of linking username to the team named n (id team_id) of alias a
LinkCalls(store, username, a, n, team_id) ==
    {Link(store, username, a, n, FALSE),
     LinkTeamCaptain(store, a, team_id, username, TRUE, FALSE)}
    \cup {[store |-> [store EXCEPT ![k] = SvcLinkTeamCaptain(store[k], n, username).t],
           out |-> SvcLinkTeamCaptain(store[k], n, username).out] :
             k \in {AliasIndex(store, a)} \ {0}}

\* C5: across all tournaments no identity is the captain of more than one team,
\* and a link attempt (the user's link, the administrator's link_team_captain,
\* the service's link_team_captain) for an identity that is already a captain
\* fails and changes nothing.
C5_CaptaincyExclusive ==
    \A u \in Users :
        /\ Cardinality(TeamsOfCaptain(tournaments, u)) <= 1
        /\ TeamsOfCaptain(tournaments, u) # {} =>
               \A a \in Aliases, n \in TeamNames, id \in LinkTeamIdArgs :
                   \A r \in LinkCalls(tournaments, u, a, n, id) :
                       Failed(r.out) /\ r.store = tournaments

\* a captain of one team asks the service for a second, captainless team
C5_ServiceLinksSecondTeam ==
    \E u \in Users, k \in 1..Len(tournaments), n \in TeamNames :
        /\ TeamsOfCaptain(tournaments, u) # {}
        /\ Ok(SvcLinkTeamCaptain(tournaments[k], n, u).out)

----------------------------------------------------------------------------
(* Reconciliation with the provider: refresh_tournament, reset_team *)

\* ToornamentInfo.from_dict: keeps the keys that are fields of the class
ToornamentInfoFromDict(info) == [id |-> info.id, name |-> info.name]

\* the loop body rebuilding a known team from the fetched participant
SvcMergeRebuilding(t, participant) ==
    LET i == FindTeamById(t, participant.id) IN
    IF i # 0 THEN [t EXCEPT !.teams[i] = TeamFromDict(participant)]
    ELSE [t EXCEPT !.teams = Append(@, TeamFromDict(participant))]

\* the loop body without the lookup of the participant's id
SvcMergeAppending(t, participant) ==
    [t EXCEPT !.teams = Append(@, TeamFromDict(participant))]

\* the body of the loop of TournamentService.refresh_tournament; the provider's
\* participant ids are strings, which str() leaves as they are
SvcMergeParticipant(t, participant) ==
    LET i == FindTeamById(t, participant.id) IN
    IF i # 0
    THEN [t EXCEPT !.teams[i].name = participant.name,
                   !.teams[i].lineup = Get(participant, "lineup", <<>>),
                   !.teams[i].checked_in = Get(participant, "checked_in", None)]
    ELSE [t EXCEPT !.teams = Append(@, TeamFromDict(participant))]

RECURSIVE SvcMergeParticipants(_, _)
SvcMergeParticipants(t, participants) ==
    IF participants = <<>> THEN t
    ELSE SvcMergeParticipants(SvcMergeParticipant(t, Head(participants)),
                              Tail(participants))

\* refresh_tournament taking the fetched list as the new team list
SvcRefreshReplacing(t, info, participants) ==
    IF IsEmpty(info) THEN [t |-> t, out |-> <<"TournamentIDNotFound">>]
    ELSE [t |-> SvcMergeParticipants([t EXCEPT !.info = ToornamentInfoFromDict(info),
                                               !.teams = <<>>],
                                     participants),
          out |-> <<"ok">>]

\* refresh_tournament overwriting info before it looks at the answer
SvcRefreshOverwriting(t, info, participants) ==
    IF IsEmpty(info)
    THEN [t |-> [t EXCEPT !.info.name = None], out |-> <<"TournamentIDNotFound">>]
    ELSE [t |-> SvcMergeParticipants([t EXCEPT !.info = ToornamentInfoFromDict(info)],
                                     participants),
          out |-> <<"ok">>]

\* TournamentService.refresh_tournament, in place on the tournament: [t, out];
\* info and participants are the provider's answers ({} for an unknown id)
SvcRefreshTournament(t, info, participants) ==
    IF IsEmpty(info) THEN [t |-> t, out |-> <<"TournamentIDNotFound">>]
    ELSE [t |-> SvcMergeParticipants([t EXCEPT !.info = ToornamentInfoFromDict(info)],
                                     participants),
          out |-> <<"ok">>]

\* the body of the loop of TournamentManagerPlugin.refresh_tournament
MergeParticipant(t, participant) ==
    LET i == FindTeamById(t, participant.id) IN
    IF i # 0
    THEN [t EXCEPT !.teams[i].name = participant.name,
                   !.teams[i].lineup = Get(participant, "lineup", <<>>),
                   !.teams[i].checked_in = Get(participant, "checked_in", None)]
    ELSE [t EXCEPT !.teams = Append(@, TeamFromDict(participant))]

RECURSIVE MergeParticipants(_, _)
MergeParticipants(t, participants) ==
    IF participants = <<>> THEN t
    ELSE MergeParticipants(MergeParticipant(t, Head(participants)), Tail(participants))

\* TournamentManagerPlugin.refresh_tournament
RefreshTournament(store, alias, info, participants) ==
    OnAlias(store, alias, LAMBDA t :
        IF IsEmpty(info) THEN Refused(t, <<"NotFoundOnToornament">>)
        ELSE Saved(MergeParticipants([t EXCEPT !.info = ToornamentInfoFromDict(info)],
                                     participants),
                   <<"ok">>))

\* reset_tournament_team also taking the team out of the matches it joined
SvcResetTournamentTeamLeaving(t, team_id, participant) ==
    LET i == FindTeamById(t, StrOfInt(team_id)) IN
    IF i = 0 THEN [t |-> t, out |-> <<"TournamentTeamIDNotFound">>]
    ELSE IF IsEmpty(participant) THEN [t |-> t, out |-> <<"ErrorFetchingParticipantData">>]
    ELSE LET cleared == [t EXCEPT !.teams[i].captain = None] IN
         IF "lineup" \notin DOMAIN participant THEN [t |-> cleared, out |-> <<"KeyError">>]
         ELSE IF "custom_fields" \notin DOMAIN participant
         THEN [t |-> [cleared EXCEPT !.teams[i].lineup = participant.lineup],
               out |-> <<"KeyError">>]
         ELSE [t |-> [cleared EXCEPT
                        !.teams[i].lineup = participant.lineup,
                        !.teams[i].custom_fields = participant.custom_fields,
                        !.teams[i].checked_in = Get(participant, "checked_in", None),
                        !.matches = [mi \in 1..Len(@) |->
                            [@[mi] EXCEPT !.teams_joined =
                                SelectSeq(@, LAMBDA e : e # t.teams[i].id)]]],
               out |-> <<"ok">>]

\* reset_tournament_team clearing the captain before it asks the provider
SvcResetTournamentTeamEager(t, team_id, participant) ==
    LET i == FindTeamById(t, StrOfInt(team_id)) IN
    IF i = 0 THEN [t |-> t, out |-> <<"TournamentTeamIDNotFound">>]
    ELSE LET cleared == [t EXCEPT !.teams[i].captain = None] IN
         IF IsEmpty(participant) THEN [t |-> cleared, out |-> <<"ErrorFetchingParticipantData">>]
         ELSE IF "lineup" \notin DOMAIN participant THEN [t |-> cleared, out |-> <<"KeyError">>]
         ELSE IF "custom_fields" \notin DOMAIN participant
         THEN [t |-> [cleared EXCEPT !.teams[i].lineup = participant.lineup],
               out |-> <<"KeyError">>]
         ELSE [t |-> [cleared EXCEPT
                        !.teams[i].lineup = participant.lineup,
                        !.teams[i].custom_fields = participant.custom_fields,
                        !.teams[i].checked_in = Get(participant, "checked_in", None)],
               out |-> <<"ok">>]

\* TournamentService.reset_tournament_team, in place on the tournament: the
\* captain is cleared before participant["lineup"] can raise KeyError
SvcResetTournamentTeam(t, team_id, participant) ==
    LET i == FindTeamById(t, StrOfInt(team_id)) IN
    IF i = 0 THEN [t |-> t, out |-> <<"TournamentTeamIDNotFound">>]
    ELSE IF IsEmpty(participant) THEN [t |-> t, out |-> <<"ErrorFetchingParticipantData">>]
    ELSE LET cleared == [t EXCEPT !.teams[i].captain = None] IN
         IF "lineup" \notin DOMAIN participant THEN [t |-> cleared, out |-> <<"KeyError">>]
         ELSE IF "custom_fields" \notin DOMAIN participant
         THEN [t |-> [cleared EXCEPT !.teams[i].lineup = participant.lineup],
               out |-> <<"KeyError">>]
         ELSE [t |-> [cleared EXCEPT
                        !.teams[i].lineup = participant.lineup,
                        !.teams[i].custom_fields = participant.custom_fields,
                        !.teams[i].checked_in = Get(participant, "checked_in", None)],
               out |-> <<"ok">>]

\* TournamentManagerPlugin.reset_team: an exception inside the
\* `with self.mutable` block skips the write
ResetTeam(store, alias, team_id, participant, discord_fails) ==
    OnAlias(store, alias, LAMBDA t :
        LET i == FindTeamById(t, StrOfInt(team_id)) IN
        IF i = 0 THEN Refused(t, <<"TeamNotFound">>)
        ELSE IF IsEmpty(participant) THEN Refused(t, <<"CouldNotRetrieve">>)
        ELSE IF t.teams[i].captain # None /\ discord_fails
        THEN [t |-> t, save |-> FALSE, out |-> <<"DiscordError">>]
        ELSE IF {"lineup", "custom_fields", "checked_in"} \ DOMAIN participant # {}
        THEN [t |-> t, save |-> FALSE, out |-> <<"KeyError">>]
        ELSE Saved([t EXCEPT !.teams[i].captain = None,
                             !.teams[i].lineup = participant.lineup,
                             !.teams[i].custom_fields = participant.custom_fields,
                             !.teams[i].checked_in = participant.checked_in],
                   <<"ok">>))

DoRefreshTournament(alias, info, participants) ==
    Call(RefreshTournament(tournaments, alias, info, participants))

DoSvcRefreshTournament(k, info, participants) ==
    /\ k \in 1..Len(tournaments)
    /\ SvcCall(k, SvcRefreshTournament(tournaments[k], info, participants))

DoResetTeam(alias, team_id, participant, discord_fails) ==
    Call(ResetTeam(tournaments, alias, team_id, participant, discord_fails))

DoSvcResetTournamentTeam(k, team_id, participant) ==
    /\ k \in 1..Len(tournaments)
    /\ SvcCall(k, SvcResetTournamentTeam(tournaments[k], team_id, participant))

\* what the provider may say about the participant with this id: the name
\* alone, or another name with a lineup and a check-in
ParticipantAnswers(id) ==
    {Participant(id, "A"),
     [id |-> id, name |-> "B", custom_fields |-> <<>>, lineup |-> <<"p1">>,
      checked_in |-> "True"]}

ProviderIds == 1..MaxTeams

ProviderParticipants == UNION {ParticipantAnswers(StrOfInt(id)) : id \in ProviderIds}

\* the provider's get_tournament answer for a tournament it knows
FetchedInfo(tournament_id, name) == [id |-> tournament_id, name |-> name, logo |-> "l"]

\* the provider's answers to one refresh: it does not know the tournament, or
\* it returns its info and up to MaxFetch participants, repeats included
RefreshAnswers ==
    {[info |-> EmptyDict, participants |-> <<>>]}
    \cup {[info |-> FetchedInfo(1, "n2"), participants |-> ps] :
             ps \in UNION {[1..len -> ProviderParticipants] : len \in 0..MaxFetch}}

\* the store after `!add tournament a1 1` found participant "1" with a custom
\* field, an administrator set a role, a captain role and a channel and created
\* m1, and u1 linked to the team and submitted a score for m1
RosterTournament ==
    LET t == Tournament(1, "a1", ToornamentInfoFromDict(FetchedInfo(1, "n1")),
                        <<TeamFromDict([Participant("1", "A") EXCEPT
                                           !.custom_fields = <<"cf">>])>>)
    IN  [t EXCEPT !.administrator_roles = <<"r1">>,
                  !.captain_role = "cap",
                  !.channels = <<"c1">>,
                  !.matches = <<Match(0, "m1", Admin, Password)>>,
                  !.teams[1].captain = "u1",
                  !.teams[1].score_submissions =
                      <<ScoreSubmission("m1", "A", <<"s1">>, 1, 0)>>]

\* the users who link and unlink while the roster is maintained
RosterUsers == {"u1", "u2"}

InitRefresh ==
    /\ tournaments = <<RosterTournament>>
    /\ now = LoadTime
    /\ completed = {}
    /\ threads = <<>>

NextRefresh ==
    \/ \E a \in Aliases, r \in RefreshAnswers : DoRefreshTournament(a, r.info, r.participants)
    \/ \E k \in 1..Len(tournaments), r \in RefreshAnswers :
           DoSvcRefreshTournament(k, r.info, r.participants)
    \/ \E a \in Aliases, id \in ProviderIds, f \in BOOLEAN :
           \E p \in ParticipantAnswers(StrOfInt(id)) \cup {EmptyDict} :
               DoResetTeam(a, id, p, f)
    \/ \E k \in 1..Len(tournaments), id \in ProviderIds :
           \E p \in ParticipantAnswers(StrOfInt(id)) \cup {EmptyDict} :
               DoSvcResetTournamentTeam(k, id, p)
    \/ \E frm \in RosterUsers, n \in TeamNames, f \in BOOLEAN : DoLink(frm, "a1", n, f)
    \/ \E frm \in RosterUsers, n \in TeamNames, f \in BOOLEAN : DoUnlink(frm, n, f)

SpecRefresh == InitRefresh /\ [][NextRefresh]_vars

----------------------------------------------------------------------------
(* Properties of the reconciliation *)

\* position of the last fetched participant with this id, 0 when there is none
LastFetched(participants, id) ==
    LET js == {j \in 1..Len(participants) : participants[j].id = id}
    IN  IF js = {} THEN 0 ELSE CHOOSE j \in js : \A j2 \in js : j2 <= j

\* r is t merged with the fetched participants
Merged(t, r, participants) ==
    /\ Len(r.teams) >= Len(t.teams)
    /\ \A i \in 1..Len(t.teams) :
           LET j == LastFetched(participants, t.teams[i].id) IN
           /\ r.teams[i].id = t.teams[i].id
           /\ r.teams[i].captain = t.teams[i].captain
           /\ r.teams[i].score_submissions = t.teams[i].score_submissions
           /\ r.teams[i].custom_fields = t.teams[i].custom_fields
           /\ IF j = 0 THEN r.teams[i] = t.teams[i]
              ELSE /\ r.teams[i].name = participants[j].name
                   /\ r.teams[i].lineup = Get(participants[j], "lineup", <<>>)
                   /\ r.teams[i].checked_in = Get(participants[j], "checked_in", None)
    /\ \A i \in (Len(t.teams) + 1)..Len(r.teams) :
           /\ r.teams[i].captain = None
           /\ r.teams[i].score_submissions = <<>>
           /\ FindTeamById(t, r.teams[i].id) = 0
           /\ LastFetched(participants, r.teams[i].id) # 0
    /\ \A j \in 1..Len(participants) : FindTeamById(r, participants[j].id) # 0
    /\ r.matches = t.matches
    /\ r.channels = t.channels
    /\ r.administrator_roles = t.administrator_roles
    /\ r.captain_role = t.captain_role

\* the provider's answers that know the tournament
KnownAnswers == {a \in RefreshAnswers : ~IsEmpty(a.info)}

\* C6: a refresh merges: a team whose id is fetched takes the fetched name,
\* lineup and checked_in and keeps its captain, score_submissions and
\* custom_fields; a fetched id the tournament lacks is appended with no captain
\* and no submissions; matches, channels, administrator_roles and captain_role
\* are unchanged.
C6_RefreshMerges ==
    \A k \in 1..Len(tournaments), a \in KnownAnswers :
        LET t == tournaments[k]
            svc == SvcRefreshTournament(t, a.info, a.participants)
            cmd == RefreshTournament(tournaments, t.alias, a.info, a.participants)
        IN  /\ Ok(svc.out) /\ Merged(t, svc.t, a.participants)
            /\ Ok(cmd.out) /\ Merged(t, cmd.store[k], a.participants)

\* a linked team with a submission that an earlier refresh renamed and checked
\* in, next to a team a refresh appended; a further refresh renames it back
C6_Witness ==
    \E k \in 1..Len(tournaments) :
        LET t == tournaments[k] IN
        /\ Len(t.teams) = 2
        /\ t.teams[1].captain = "u1"
        /\ t.teams[1].score_submissions # <<>>
        /\ t.teams[1].name = "B"
        /\ t.teams[1].checked_in = "True"
        /\ t.teams[1].custom_fields = <<"cf">>
        /\ t.teams[2].captain = None
        /\ SvcRefreshTournament(t, FetchedInfo(1, "n2"),
                                <<Participant("1", "A")>>).t.teams[1].name = "A"

\* the ids of the teams of a tournament
TeamIds(t) == {t.teams[i].id : i \in 1..Len(t.teams)}

\* C7: whatever the provider returns, a refresh removes no team the tournament
\* already held.
C7_RefreshKeepsTeams ==
    \A k \in 1..Len(tournaments), a \in RefreshAnswers :
        LET t == tournaments[k] IN
        /\ TeamIds(t) \subseteq
               TeamIds(SvcRefreshTournament(t, a.info, a.participants).t)
        /\ TeamIds(t) \subseteq
               TeamIds(RefreshTournament(tournaments, t.alias, a.info,
                                         a.participants).store[k])

\* a tournament holding two teams is refreshed with an answer that lists
\* neither, and with one that lists only the second: both teams stay
C7_Witness ==
    \E k \in 1..Len(tournaments) :
        LET t == tournaments[k]
            none == SvcRefreshTournament(t, FetchedInfo(1, "n2"), <<>>)
            second == RefreshTournament(tournaments, t.alias, FetchedInfo(1, "n2"),
                                        <<Participant(t.teams[2].id, "A")>>)
        IN  /\ Len(t.teams) = 2
            /\ Ok(none.out) /\ TeamIds(none.t) = {"1", "2"}
            /\ Ok(second.out) /\ TeamIds(second.store[k]) = {"1", "2"}

\* C8: a second refresh with the same provider answers changes nothing the
\* first has not: same teams in the same order, same captains and submissions.
C8_RefreshIdempotent ==
    \A k \in 1..Len(tournaments), a \in KnownAnswers :
        LET t == tournaments[k]
            once == SvcRefreshTournament(t, a.info, a.participants)
            twice == SvcRefreshTournament(once.t, a.info, a.participants)
            cmd1 == RefreshTournament(tournaments, t.alias, a.info, a.participants)
            cmd2 == RefreshTournament(cmd1.store, t.alias, a.info, a.participants)
        IN  /\ Ok(twice.out) /\ twice.t = once.t
            /\ Ok(cmd2.out) /\ cmd2.store = cmd1.store

\* an answer naming a new participant twice and renaming a known team: the
\* first refresh appends one team and renames the other, the second changes
\* nothing
C8_Witness ==
    \E k \in 1..Len(tournaments), a \in KnownAnswers :
        LET t == tournaments[k]
            once == SvcRefreshTournament(t, a.info, a.participants)
        IN  /\ t.info.name = "n2"
            /\ Len(t.teams) = 1
            /\ Len(a.participants) = 2
            /\ a.participants[1].id = "2" /\ a.participants[2].id = "2"
            /\ a.participants[1] # a.participants[2]
            /\ Len(once.t.teams) = 2
            /\ SvcRefreshTournament(once.t, a.info, a.participants).t = once.t

\* C9: when the provider does not know the tournament id, a refresh fails and
\* leaves the tournament, and the store, exactly as they were.
C9_UnknownIdChangesNothing ==
    \A k \in 1..Len(tournaments),
       ps \in {<<>>} \cup {<<p>> : p \in ProviderParticipants} :
        LET t == tournaments[k]
            svc == SvcRefreshTournament(t, EmptyDict, ps)
            cmd == RefreshTournament(tournaments, t.alias, EmptyDict, ps)
        IN  /\ svc.out = <<"TournamentIDNotFound">> /\ svc.t = t
            /\ cmd.out = <<"NotFoundOnToornament">> /\ cmd.store = tournaments

\* a tournament that earlier refreshes changed and extended is refreshed while
\* the provider no longer knows it
C9_Witness ==
    \E k \in 1..Len(tournaments) :
        /\ Len(tournaments[k].teams) = 2
        /\ tournaments[k].info.name = "n2"
        /\ tournaments[k].teams[1].lineup # <<>>
        /\ Failed(SvcRefreshTournament(tournaments[k], EmptyDict, <<>>).out)
        /\ Failed(RefreshTournament(tournaments, "a1", EmptyDict, <<>>).out)

\* every reconciliation call, with every answer of the provider
RosterCalls(store) ==
    {RefreshTournament(store, al, a.info, a.participants) :
         al \in Aliases, a \in RefreshAnswers}
    \cup UNION {{ResetTeam(store, al, id, p, f) :
                    p \in ParticipantAnswers(StrOfInt(id)) \cup {EmptyDict}} :
                <<al, id, f>> \in Aliases \X ProviderIds \X BOOLEAN}
    \cup UNION {{[store |-> [store EXCEPT ![k] = r.t], out |-> r.out] :
                    r \in {SvcRefreshTournament(store[k], a.info, a.participants) :
                              a \in RefreshAnswers}
                          \cup UNION {{SvcResetTournamentTeam(store[k], id, p) :
                                          p \in ParticipantAnswers(StrOfInt(id))
                                                    \cup {EmptyDict}} :
                                      id \in ProviderIds}} :
                k \in 1..Len(store)}

\* C10 as stated: a failing call of any operation leaves the Tournament and
\* the store exactly as they were before the call.
C10_FailingCallChangesNothing ==
    \A r \in RosterCalls(tournaments) : Failed(r.out) => r.store = tournaments

----------------------------------------------------------------------------
(* Properties of join and leave *)

\* C11: in every reachable state, for every match whose teams_registered is
\* non-empty, every id in teams_joined is also in teams_registered.
C11_JoinedAreRegistered ==
    \A k \in 1..Len(tournaments) : \A mi \in 1..Len(tournaments[k].matches) :
        LET match == tournaments[k].matches[mi] IN
        match.teams_registered # <<>> =>
            Range(match.teams_joined) \subseteq Range(match.teams_registered)

\* a match with a match group has a team joined, and join_match refuses a team
\* that is not of the group
C11_Witness ==
    \E k \in 1..Len(tournaments) : \E mi \in 1..Len(tournaments[k].matches) :
        LET match == tournaments[k].matches[mi] IN
        /\ match.teams_registered # <<>>
        /\ match.teams_joined # <<>>
        /\ match.status = PENDING
        /\ \E id \in TeamIdArgs : SvcJoinMatch(match, id).out = <<"NotInMatchGroup">>

\* the joins aimed at match mi of the tournament at position k by a team that
\* has not joined it: the captains' commands and the service calls, as
\* [id, out] with id the joining team's id
JoinsOf(store, k, mi) ==
    LET match == store[k].matches[mi] IN
    {[id |-> store[k].teams[FindCaptainTeam(u, store).i].id,
      out |-> CmdJoin(store, u, match.name).out] :
        u \in {u \in Users :
                  /\ FindCaptainTeam(u, store).k = k
                  /\ store[k].teams[FindCaptainTeam(u, store).i].id
                         \notin Range(match.teams_joined)}}
    \cup
    {[id |-> StrOfInt(n), out |-> SvcJoinMatch(match, n).out] :
        n \in {n \in TeamIdArgs : StrOfInt(n) \notin Range(match.teams_joined)}}

\* the claim as it was stated: teams_registered alone decides, so that a match
\* whose teams_registered is empty admits every team, also when the match was
\* created with an external id.
C12_EligibleByList ==
    \A k \in 1..Len(tournaments) : \A mi \in 1..Len(tournaments[k].matches) :
        LET match == tournaments[k].matches[mi] IN
        match.status = PENDING =>
            \A j \in JoinsOf(tournaments, k, mi) :
                IF match.teams_registered # <<>>
                THEN Ok(j.out) <=> j.id \in Range(match.teams_registered)
                ELSE Ok(j.out)

\* C12: eligibility to join is decided by the match's external id together with
\* teams_registered: on a PENDING match created with an external id only a team
\* whose id is in teams_registered can join (no team when the list is empty);
\* on a PENDING match created without one any captain's team can join.
C12_EligibleByGroup ==
    \A k \in 1..Len(tournaments) : \A mi \in 1..Len(tournaments[k].matches) :
        LET match == tournaments[k].matches[mi] IN
        match.status = PENDING =>
            \A j \in JoinsOf(tournaments, k, mi) :
                IF match.id # 0
                THEN /\ Ok(j.out) <=> j.id \in Range(match.teams_registered)
                     /\ ~Ok(j.out) => j.out = <<"NotInMatchGroup">>
                ELSE Ok(j.out)

\* a PENDING match created with an external id whose group is empty refuses a
\* captain, next to a PENDING match created without an id that admits the same
\* captain
C12_Witness ==
    \E k \in 1..Len(tournaments) : \E mi, mj \in 1..Len(tournaments[k].matches) :
        \E u \in Users :
            LET match == tournaments[k].matches[mi]
                other == tournaments[k].matches[mj]
            IN  /\ match.status = PENDING /\ match.id # 0
                /\ match.teams_registered = <<>>
                /\ CmdJoin(tournaments, u, match.name).out = <<"NotInMatchGroup">>
                /\ other.status = PENDING /\ other.id = 0
                /\ Ok(CmdJoin(tournaments, u, other.name).out)

\* C13: a rejected join (the caller is no captain, the team is not eligible, has
\* already joined, or the match is not PENDING) and a rejected leave (the team
\* is not in teams_joined, or the match is not PENDING) leave the match, its
\* teams_joined and status included, as it was; a second join by the same team
\* is always rejected.
C13_RejectedJoinLeave ==
    \A k \in 1..Len(tournaments) : \A mi \in 1..Len(tournaments[k].matches) :
        LET match == tournaments[k].matches[mi] IN
        /\ \A u \in Users :
               LET c == FindCaptainTeam(u, tournaments)
                   join == CmdJoin(tournaments, u, match.name)
                   leave == CmdLeave(tournaments, u, match.name)
               IN  /\ Failed(join.out) => join.store = tournaments
                   /\ Failed(leave.out) => leave.store = tournaments
                   /\ c.k = 0 => join.out = <<"NotCaptain">> /\ leave.out = <<"NotCaptain">>
                   /\ Done(join.out) =>
                          Failed(CmdJoin(join.store, u, match.name).out)
                   /\ c.k = k =>
                          LET id == tournaments[k].teams[c.i].id IN
                          /\ match.id # 0 /\ id \notin Range(match.teams_registered)
                                 => Failed(join.out)
                          /\ id \in Range(match.teams_joined) => Failed(join.out)
                          /\ id \notin Range(match.teams_joined) => Failed(leave.out)
                          /\ match.status # PENDING
                                 => Failed(join.out) /\ Failed(leave.out)
        /\ \A n \in TeamIdArgs :
               LET r == SvcJoinMatch(match, n) IN
               /\ Failed(r.out) => r.match = match
               /\ Done(r.out) => Failed(SvcJoinMatch(r.match, n).out)
               /\ \/ match.id # 0 /\ StrOfInt(n) \notin Range(match.teams_registered)
                  \/ StrOfInt(n) \in Range(match.teams_joined)
                  \/ match.status # PENDING
                  => Failed(r.out)

\* a started match holds a team whose captain is refused both a second join
\* and a leave, while another captain's team that never joined is refused a
\* leave
C13_Witness ==
    \E k \in 1..Len(tournaments) : \E mi \in 1..Len(tournaments[k].matches) :
        \E u, v \in Users :
            LET match == tournaments[k].matches[mi] IN
            /\ match.status = ONGOING
            /\ CmdJoin(tournaments, u, match.name).out = <<"AlreadyJoined">>
            /\ CmdLeave(tournaments, u, match.name).out = <<"CantLeaveMatch">>
            /\ CmdLeave(tournaments, v, match.name).out = <<"NotInMatch">>

\* C14: a successful join appends exactly the joining team's id to teams_joined
\* (its length grows by one) and changes nothing else in the match, and in every
\* reachable state teams_joined holds no id twice.
C14_JoinAppendsOnce ==
    \A k \in 1..Len(tournaments) : \A mi \in 1..Len(tournaments[k].matches) :
        LET match == tournaments[k].matches[mi] IN
        /\ \A i, j \in 1..Len(match.teams_joined) :
               match.teams_joined[i] = match.teams_joined[j] => i = j
        /\ \A u \in Users :
               LET c == FindCaptainTeam(u, tournaments)
                   join == CmdJoin(tournaments, u, match.name)
               IN  Done(join.out) =>
                       /\ Len(join.store[k].matches[mi].teams_joined)
                              = Len(match.teams_joined) + 1
                       /\ join.store =
                              [tournaments EXCEPT ![k].matches[mi].teams_joined =
                                   Append(@, tournaments[c.k].teams[c.i].id)]
        /\ \A n \in TeamIdArgs :
               LET r == SvcJoinMatch(match, n) IN
               Done(r.out) =>
                   /\ Len(r.match.teams_joined) = Len(match.teams_joined) + 1
                   /\ r.match = [match EXCEPT !.teams_joined = Append(@, StrOfInt(n))]

\* a match holds two joined teams, the second one's id last, and a third team
\* can still join it
C14_Witness ==
    \E k \in 1..Len(tournaments) : \E mi \in 1..Len(tournaments[k].matches) :
        LET match == tournaments[k].matches[mi] IN
        /\ Len(match.teams_joined) = 2
        /\ match.teams_joined[1] # match.teams_joined[2]
        /\ \E n \in TeamIdArgs : Ok(SvcJoinMatch(match, n).out)

\* C15: for a PENDING match and a team that has not joined it, a join followed
\* at once by a leave of the same captain succeeds and restores teams_joined
\* exactly: the same ids in the same order.
C15_JoinThenLeave ==
    \A k \in 1..Len(tournaments) : \A mi \in 1..Len(tournaments[k].matches) :
        \A u \in Users :
            LET match == tournaments[k].matches[mi]
                join == CmdJoin(tournaments, u, match.name)
                leave == CmdLeave(join.store, u, match.name)
            IN  Done(join.out) =>
                    /\ Ok(leave.out)
                    /\ leave.store[k].matches[mi].teams_joined = match.teams_joined
                    /\ leave.store = tournaments

\* a PENDING match already holds another team, and a captain whose team has not
\* joined it can join and then leave
C15_Witness ==
    \E k \in 1..Len(tournaments) : \E mi \in 1..Len(tournaments[k].matches) :
        \E u \in Users :
            LET match == tournaments[k].matches[mi]
                join == CmdJoin(tournaments, u, match.name)
            IN  /\ match.status = PENDING
                /\ match.teams_joined # <<>>
                /\ Ok(join.out)
                /\ Len(join.store[k].matches[mi].teams_joined) = Len(match.teams_joined) + 1
                /\ Ok(CmdLeave(join.store, u, match.name).out)

----------------------------------------------------------------------------
(* SpecStart: start_match after the roster has changed under the matches *)

\* TournamentManagerPlugin.remove_team; discord_fails: the nickname or role
\* call of _remove_discord_team_captain raises
RemoveTeam(store, alias, team_id, discord_fails) ==
    OnAlias(store, alias, LAMBDA t :
        LET i == FindTeamById(t, StrOfInt(team_id)) IN
        IF i = 0 THEN Refused(t, <<"TeamNotFound">>)
        ELSE IF t.teams[i].captain # None /\ discord_fails
        THEN [t |-> t, save |-> FALSE, out |-> <<"DiscordError">>]
        ELSE Saved([t EXCEPT !.teams = ListRemove(@, t.teams[i])], <<"ok">>))

DoRemoveTeam(alias, team_id, discord_fails) ==
    Call(RemoveTeam(tournaments, alias, team_id, discord_fails))

NextStart ==
    \/ \E a \in Aliases, m \in MatchNames : DoCreateMatch(a, m, 0, EmptyDict)
    \/ \E u \in Users, m \in MatchNames : DoJoin(u, m)
    \/ \E u \in Users, m \in MatchNames : DoLeave(u, m)
    \/ \E a \in Aliases, id \in TeamIdArgs, f \in BOOLEAN : DoRemoveTeam(a, id, f)
    \/ \E a \in Aliases, id \in ProviderIds, f \in BOOLEAN :
           \E p \in ParticipantAnswers(StrOfInt(id)) : DoResetTeam(a, id, p, f)
    \/ \E frm \in Users, n \in TeamNames, f \in BOOLEAN : DoUnlink(frm, n, f)
    \/ \E a \in Aliases, m \in MatchNames, raises \in BOOLEAN : DoStartMatch(a, m, raises)

SpecStart == Init /\ [][NextStart]_vars

\* C16: in every reachable state, start_match on a PENDING match completes and
\* sets the match ONGOING, whatever ids teams_joined holds and whatever has
\* happened to those teams (removed, reset, captain unlinked); here even with a
\* chat backend that builds an identifier for every captain value.
C16_StartAlwaysCompletes ==
    \A k \in 1..Len(tournaments) : \A mi \in 1..Len(tournaments[k].matches) :
        LET match == tournaments[k].matches[mi]
            start == CmdStartMatch(tournaments, tournaments[k].alias, match.name, FALSE)
        IN  match.status = PENDING =>
                /\ Ok(start.out)
                /\ start.store[k].matches[mi].status = ONGOING

----------------------------------------------------------------------------
(* Properties of the administrative overrides *)

\* C17: end_match with the force flag sets the match COMPLETED from any status
\* (PENDING, ONGOING or already COMPLETED) and changes nothing else; without the
\* flag, on a match that is not ONGOING, the call fails and the status stays.
C17_ForcedEnd ==
    \A k \in 1..Len(tournaments) : \A mi \in 1..Len(tournaments[k].matches) :
        LET match == tournaments[k].matches[mi]
            forced == CmdEndMatch(tournaments, tournaments[k].alias, match.name, TRUE)
            plain == CmdEndMatch(tournaments, tournaments[k].alias, match.name, FALSE)
        IN  /\ Ok(forced.out)
            /\ forced.store = [tournaments EXCEPT ![k].matches[mi].status = COMPLETED]
            /\ match.status # ONGOING =>
                   /\ Failed(plain.out)
                   /\ plain.store = tournaments

\* a tournament holds a PENDING match and a COMPLETED match: end_match refuses
\* both without the flag and completes the PENDING one with it
C17_Witness ==
    \E k \in 1..Len(tournaments) : \E mi, mj \in 1..Len(tournaments[k].matches) :
        LET a == tournaments[k].alias
            pending == tournaments[k].matches[mi]
            closed == tournaments[k].matches[mj]
        IN  /\ pending.status = PENDING /\ closed.status = COMPLETED
            /\ Failed(CmdEndMatch(tournaments, a, pending.name, FALSE).out)
            /\ Failed(CmdEndMatch(tournaments, a, closed.name, FALSE).out)
            /\ StatusOf(CmdEndMatch(tournaments, a, pending.name, TRUE).store,
                        k, pending.name) = COMPLETED

\* the spellings of a status name that differ in letter case only
Spellings(status) ==
    CASE status = PENDING -> {"pending", "Pending", "PENDING"}
      [] status = ONGOING -> {"ongoing", "ONGOING"}
      [] status = COMPLETED -> {"completed", "Completed", "COMPLETED"}

InvalidStatusWords == {"done", "started", "pendin"}

\* C18: set_match_status with a valid status name (PENDING, ONGOING or
\* COMPLETED in any letter case) sets exactly that status, from any current
\* status, and changes nothing else in the match; with any other name it fails
\* with InvalidMatchStatus and the status is unchanged.
C18_SetMatchStatus ==
    \A k \in 1..Len(tournaments) : \A mi \in 1..Len(tournaments[k].matches) :
        LET match == tournaments[k].matches[mi]
            a == tournaments[k].alias
        IN  /\ \A s \in MatchStatus : \A w \in Spellings(s) :
                   /\ SvcSetMatchStatus(match, w) =
                          [match |-> [match EXCEPT !.status = s], out |-> <<"ok">>]
                   /\ Ok(CmdSetMatchStatus(tournaments, a, match.name, w).out)
                   /\ CmdSetMatchStatus(tournaments, a, match.name, w).store =
                          [tournaments EXCEPT ![k].matches[mi].status = s]
            /\ \A w \in InvalidStatusWords :
                   /\ SvcSetMatchStatus(match, w) =
                          [match |-> match, out |-> <<"InvalidMatchStatus">>]
                   /\ CmdSetMatchStatus(tournaments, a, match.name, w) =
                          [store |-> tournaments, out |-> <<"InvalidMatchStatus">>]

\* a COMPLETED match with a team joined is set back to PENDING by the lowercase
\* name, keeping its joined teams, and refuses the name "done"
C18_Witness ==
    \E k \in 1..Len(tournaments) : \E mi \in 1..Len(tournaments[k].matches) :
        LET match == tournaments[k].matches[mi] IN
        /\ match.status = COMPLETED
        /\ match.teams_joined # <<>>
        /\ SvcSetMatchStatus(match, "pending").match.status = PENDING
        /\ SvcSetMatchStatus(match, "pending").match.teams_joined = match.teams_joined
        /\ SvcSetMatchStatus(match, "done").out = <<"InvalidMatchStatus">>

----------------------------------------------------------------------------
(* SpecGroup: score submissions for matches created with a match group *)

NextGroup ==
    \/ \E a \in Aliases, m \in MatchNames, id \in MatchIdArgs, info \in MatchInfos :
           DoCreateMatch(a, m, id, info)
    \/ \E a \in Aliases, m \in MatchNames : DoRemoveMatch(a, m)
    \/ \E u \in Users, msg \in AttachmentMessages :
           DoCallbackAttachment(u, msg, UrlsOf(msg))
    \/ \E k \in 1..Len(tournaments), m \in MatchNames, id \in TeamIdArgs :
           DoSvcSubmitScore(k, m, id, <<"s1">>, 1, 0)
    \/ \E k \in 1..Len(tournaments), m \in MatchNames, id \in TeamIdArgs :
           DoSvcAddScreenshot(k, m, id, <<"s2">>)
    \/ \E u \in Users, m \in MatchNames : DoRemoveScore(u, m)

SpecGroup == Init /\ [][NextGroup]_vars

\* C19: on every submission path, the service's submit_score and the chat
\* attachment handler, a team whose id is not in a match's declared (non-empty)
\* teams_registered cannot create a ScoreSubmission for it: the call fails and
\* the score_submissions, with the rest of the store, are unchanged.
C19_UnregisteredCannotSubmit ==
    \A k \in 1..Len(tournaments) : \A mi \in 1..Len(tournaments[k].matches) :
        LET t == tournaments[k]
            match == t.matches[mi]
        IN  match.teams_registered # <<>> =>
            /\ \A n \in TeamIdArgs :
                   LET r == SvcSubmitScore(t, match.name, n, <<"s1">>, 1, 0) IN
                   StrOfInt(n) \notin Range(match.teams_registered) =>
                       Failed(r.out) /\ r.t = t
            /\ \A u \in Users :
                   LET c == FindCaptainTeam(u, tournaments)
                       r == CallbackAttachment(tournaments, u, SubmitMsg(match.name, "1"),
                                               <<"s1">>, now)
                   IN  (c.k = k /\ t.teams[c.i].id \notin Range(match.teams_registered)) =>
                           Failed(r.out) /\ r.store = tournaments

----------------------------------------------------------------------------
(* Properties of add_screenshot *)

\* the attachment lists an add_screenshot is given
UrlLists == {<<"s2">>, <<"s2", "s1">>}

\* t with urls put behind the screenshot links of submission si of team ti,
\* and nothing else changed but the submission's updated_at
WithLinks(t, ti, si, urls, clock) ==
    [t EXCEPT !.teams[ti].score_submissions[si].screenshot_links = @ \o urls,
              !.teams[ti].score_submissions[si].updated_at = clock]

\* C20: a successful add_screenshot(urls) makes the submission's
\* screenshot_links the previous list followed by urls in order, leaves its
\* position, eliminations, match_name and team_name unchanged and adds no new
\* submission.
C20_AddScreenshotExtends ==
    \A k \in 1..Len(tournaments), m \in MatchNames, urls \in UrlLists :
        LET t == tournaments[k] IN
        /\ \A n \in TeamIdArgs :
               LET r == SvcAddScreenshot(t, m, n, urls, now)
                   ti == FindTeamById(t, StrOfInt(n))
               IN  Done(r.out) =>
                       LET si == FindSubmissionByMatch(t.teams[ti], m)
                           old == t.teams[ti].score_submissions[si]
                           new == r.t.teams[ti].score_submissions[si]
                       IN  /\ new.screenshot_links = old.screenshot_links \o urls
                           /\ new.position = old.position
                           /\ new.eliminations = old.eliminations
                           /\ new.match_name = old.match_name
                           /\ new.team_name = old.team_name
                           /\ Len(r.t.teams[ti].score_submissions)
                                  = Len(t.teams[ti].score_submissions)
                           /\ r.t = WithLinks(t, ti, si, urls, now)
        /\ \A u \in Users : \A msg \in AddScreenshotMsgs(m) :
               LET r == CallbackAttachment(tournaments, u, msg, urls, now)
                   c == FindCaptainTeam(u, tournaments)
               IN  (Done(r.out) /\ c.k = k) =>
                       LET si == FindSubmissionByMatch(t.teams[c.i], m) IN
                       r.store = [tournaments EXCEPT ![k] = WithLinks(t, c.i, si, urls, now)]

\* a submission for a match that is not COMPLETED holds the link of its submit
\* followed by an added one, and add_screenshot accepts further links for it
C20_Witness ==
    \E k \in 1..Len(tournaments), m \in MatchNames, n \in TeamIdArgs :
        LET t == tournaments[k]
            ti == FindTeamById(t, StrOfInt(n))
        IN  /\ ti # 0
            /\ StatusOf(tournaments, k, m) \in {PENDING, ONGOING}
            /\ LET si == FindSubmissionByMatch(t.teams[ti], m) IN
               /\ si # 0
               /\ t.teams[ti].score_submissions[si].screenshot_links = <<"s1", "s2">>
               /\ Ok(SvcAddScreenshot(t, m, n, <<"s2", "s1">>, now).out)

----------------------------------------------------------------------------
(* Properties of the score workflow: missing submissions, removal, time *)

NextResubmit ==
    \/ \E a \in Aliases, m \in MatchNames, id \in MatchIdArgs, info \in MatchInfos :
           DoCreateMatch(a, m, id, info)
    \/ \E a \in Aliases, m \in MatchNames : DoRemoveMatch(a, m)
    \/ \E k \in 1..Len(tournaments), m \in MatchNames, id \in TeamIdArgs :
           DoSvcSubmitScore(k, m, id, <<"s1">>, 1, 0)
    \/ \E u \in Users, m \in MatchNames : DoRemoveScore(u, m)

SpecResubmit == Init /\ [][NextResubmit]_vars

\* remove_score by captain u for match m deletes exactly the submission of
\* the captain's team for m, and fails without a change when there is none
RemovesOne(store, u, m) ==
    LET c == FindCaptainTeam(u, store)
        r == CmdRemoveScore(store, u, m)
        si == FindSubmissionByMatch(store[c.k].teams[c.i], m)
    IN  IF si = 0
        THEN Failed(r.out) /\ r.store = store
        ELSE /\ Ok(r.out)
             /\ r.store = [store EXCEPT ![c.k].teams[c.i].score_submissions =
                               RemoveAt(@, si)]
             /\ FindSubmissionByMatch(r.store[c.k].teams[c.i], m) = 0

\* the team of captain u is eligible for match mi of its tournament
EligibleFor(store, u, mi) ==
    LET c == FindCaptainTeam(u, store)
        match == store[c.k].matches[mi]
    IN  match.id = 0 \/ store[c.k].teams[c.i].id \in Range(match.teams_registered)

\* submit_score for the team of captain u and match m succeeds on both paths
Resubmits(store, u, m) ==
    LET c == FindCaptainTeam(u, store)
        t == store[c.k]
    IN  /\ Ok(SvcSubmitScore(t, m, IntOfStr(t.teams[c.i].id), <<"s1">>, 1, 0).out)
        /\ Done(CallbackAttachment(store, u, SubmitMsg(m, "1"), <<"s1">>, now).out)

MaxClock == 2

\* datetime.now() moves on between two calls
Tick ==
    /\ now < LoadTime + MaxClock
    /\ now' = now + 1
    /\ UNCHANGED <<tournaments, completed, threads>>

NextClock ==
    \/ Tick
    \/ \E a \in Aliases, m \in MatchNames : DoCreateMatch(a, m, 0, EmptyDict)
    \/ \E u \in Users, msg \in AttachmentMessages :
           DoCallbackAttachment(u, msg, UrlsOf(msg))
    \/ \E k \in 1..Len(tournaments), m \in MatchNames, id \in TeamIdArgs :
           DoSvcSubmitScore(k, m, id, <<"s1">>, 1, 0)
    \/ \E k \in 1..Len(tournaments), m \in MatchNames, id \in TeamIdArgs :
           DoSvcAddScreenshot(k, m, id, <<"s2">>)

SpecClock == Init /\ [][NextClock]_vars

\* C23: a ScoreSubmission created by a successful submit_score, through the
\* service or the attachment handler, has updated_at equal to the time of that
\* call (not the time the program was loaded nor that of an earlier
\* submission), and a successful add_screenshot sets updated_at to the time of
\* its call.
C23_UpdatedAtIsCallTime ==
    \A k \in 1..Len(tournaments), m \in MatchNames :
        LET t == tournaments[k] IN
        /\ \A n \in TeamIdArgs :
               LET ti == FindTeamById(t, StrOfInt(n))
                   sub == SvcSubmitScore(t, m, n, <<"s1">>, 1, 0)
                   add == SvcAddScreenshot(t, m, n, <<"s2">>, now)
               IN  /\ Ok(sub.out) =>
                          sub.t.teams[ti].score_submissions[
                              FindSubmissionByMatch(sub.t.teams[ti], m)].updated_at = now
                   /\ Ok(add.out) =>
                          add.t.teams[ti].score_submissions[
                              FindSubmissionByMatch(add.t.teams[ti], m)].updated_at = now
        /\ \A u \in Users :
               LET c == FindCaptainTeam(u, tournaments)
                   sub == CallbackAttachment(tournaments, u, SubmitMsg(m, "1"), <<"s1">>, now)
               IN  (c.k = k /\ Ok(sub.out)) =>
                       sub.store[k].teams[c.i].score_submissions[
                           FindSubmissionByMatch(sub.store[k].teams[c.i], m)].updated_at = now

----------------------------------------------------------------------------
(* Properties of create_match *)

\* C24: in every reachable state match names are unique within a tournament,
\* and create_match with a name that already exists in the tournament fails
\* and leaves the tournament's matches, with the rest of the store, unchanged.
C24_MatchNamesUnique ==
    \A k \in 1..Len(tournaments) :
        LET t == tournaments[k] IN
        /\ \A i, j \in 1..Len(t.matches) : t.matches[i].name = t.matches[j].name => i = j
        /\ \A i \in 1..Len(t.matches), id \in MatchIdArgs, info \in MatchInfos :
               LET r == CmdCreateMatch(tournaments, t.alias, t.matches[i].name, id, info) IN
               /\ r.out = <<"MatchNameExists">>
               /\ r.store = tournaments

\* a tournament holds two matches of different names, and create_match
\* refuses the name of the second one
C24_Witness ==
    \E k \in 1..Len(tournaments) :
        LET t == tournaments[k] IN
        /\ Len(t.matches) = 2
        /\ t.matches[1].name # t.matches[2].name
        /\ CmdCreateMatch(tournaments, t.alias, t.matches[2].name, 0, EmptyDict).out
               = <<"MatchNameExists">>

\* what create_match is to give for a new match: refused for an id the
\* provider does not know, otherwise a PENDING match nobody has joined whose
\* teams_registered are the participant ids of the provider's opponents
CreatedAsAsked(match, out, id, info) ==
    IF id # 0 /\ IsEmpty(info)
    THEN out = <<"MatchIDNotFound">>
    ELSE /\ Ok(out)
         /\ match.id = id
         /\ match.status = PENDING
         /\ match.teams_joined = <<>>
         /\ IF id = 0
            THEN match.teams_registered = <<>>
            ELSE /\ Len(match.teams_registered) = Len(info.opponents)
                 /\ \A j \in 1..Len(info.opponents) :
                        match.teams_registered[j] = info.opponents[j].participant.id

\* C25: create_match with an external match id the provider does not recognize
\* fails with MatchIDNotFound and adds no match to the tournament; with a
\* recognized id the new match's teams_registered is exactly the participant
\* ids of the provider's opponents; every created match starts with status
\* PENDING and empty teams_joined.
C25_CreateMatch ==
    \A k \in 1..Len(tournaments), m \in MatchNames, id \in MatchIdArgs, info \in MatchInfos :
        LET t == tournaments[k]
            r == CmdCreateMatch(tournaments, t.alias, m, id, info)
            s == SvcCreateMatch(id, m, Admin, Password, info)
        IN  /\ CreatedAsAsked(s.match, s.out, id, info)
            /\ FindMatchByName(t, m) = 0 =>
                   IF Ok(r.out)
                   THEN /\ Len(r.store[k].matches) = Len(t.matches) + 1
                        /\ CreatedAsAsked(r.store[k].matches[Len(t.matches) + 1], r.out,
                                          id, info)
                        /\ r.store = [tournaments EXCEPT ![k].matches =
                                          Append(@, r.store[k].matches[Len(t.matches) + 1])]
                   ELSE /\ r.store = tournaments
                        /\ id # 0 /\ IsEmpty(info)
                        /\ r.out = <<"MatchIDNotFound">>

\* a tournament holds one match, created with an id and a group of two teams,
\* that nobody has joined, and create_match under the free name is refused
\* for an id the provider does not know
C25_Witness ==
    \E k \in 1..Len(tournaments), m \in MatchNames :
        LET t == tournaments[k] IN
        /\ Len(t.matches) = 1
        /\ t.matches[1].id # 0
        /\ t.matches[1].teams_registered = <<"1", "2">>
        /\ t.matches[1].teams_joined = <<>>
        /\ t.matches[1].status = PENDING
        /\ FindMatchByName(t, m) = 0
        /\ CmdCreateMatch(tournaments, t.alias, m, 7, EmptyDict).out = <<"MatchIDNotFound">>

----------------------------------------------------------------------------
(* SpecAdd: the store filled by add_tournament *)

\* add_tournament writing the new tournament over an alias already in use
AddTournamentOverwriting(store, alias, tournament_id, info, participants) ==
    LET k == AliasIndex(store, alias)
        t == Tournament(tournament_id, alias, ToornamentInfoFromDict(info),
                        [j \in 1..Len(participants) |-> TeamFromDict(participants[j])])
    IN
    IF IsEmpty(info) THEN [store |-> store, out |-> <<"TournamentNotFound">>]
    ELSE [store |-> IF k # 0 THEN [store EXCEPT ![k] = t] ELSE Append(store, t),
          out |-> <<"ok">>]

\* TournamentManagerPlugin.add_tournament: info and participants are the
\* provider's get_tournament and get_participants answers
AddTournament(store, alias, tournament_id, info, participants) ==
    IF AliasIndex(store, alias) # 0
    THEN [store |-> store, out |-> <<"TournamentAliasExists">>]
    ELSE IF IsEmpty(info) THEN [store |-> store, out |-> <<"TournamentNotFound">>]
    ELSE [store |-> Append(store,
                       Tournament(tournament_id, alias, ToornamentInfoFromDict(info),
                                  [j \in 1..Len(participants) |->
                                       TeamFromDict(participants[j])])),
          out |-> <<"ok">>]

DoAddTournament(alias, tournament_id, info, participants) ==
    Call(AddTournament(tournaments, alias, tournament_id, info, participants))

TournamentIdArgs == {1, 2, 9}

\* what the provider says about a tournament id: it knows 1 and 2
AddAnswer(tournament_id) ==
    CASE tournament_id = 1 ->
           [info |-> ProviderInfo(1),
            participants |-> <<Participant("1", "A"), Participant("2", "B")>>]
      [] tournament_id = 2 ->
           [info |-> ProviderInfo(2),
            participants |-> <<Participant("3", "A"), Participant("4", "C")>>]
      [] OTHER -> [info |-> EmptyDict, participants |-> <<>>]

\* activate: self["tournaments"] = {}
InitAdd ==
    /\ tournaments = <<>>
    /\ now = LoadTime
    /\ completed = {}
    /\ threads = <<>>

NextAdd ==
    \/ \E a \in Aliases, id \in TournamentIdArgs :
           DoAddTournament(a, id, AddAnswer(id).info, AddAnswer(id).participants)
    \/ \E a \in Aliases, m \in MatchNames : DoCreateMatch(a, m, 0, EmptyDict)
    \/ \E frm \in RosterUsers, a \in Aliases, n \in TeamNames, f \in BOOLEAN :
           DoLink(frm, a, n, f)

SpecAdd == InitAdd /\ [][NextAdd]_vars

\* C26: aliases are unique across the store: add_tournament with an alias that
\* already exists fails and leaves the store unchanged (the tournament under
\* that alias keeps its id, teams, matches and every other field), and
\* add_tournament with an id the provider does not know stores nothing.
C26_AliasesUnique ==
    /\ \A i, j \in 1..Len(tournaments) :
           tournaments[i].alias = tournaments[j].alias => i = j
    /\ \A a \in Aliases, id \in TournamentIdArgs :
           LET r == AddTournament(tournaments, a, id, AddAnswer(id).info,
                                  AddAnswer(id).participants)
           IN  /\ AliasIndex(tournaments, a) # 0 =>
                      r.out = <<"TournamentAliasExists">> /\ r.store = tournaments
               /\ IsEmpty(AddAnswer(id).info) => Failed(r.out) /\ r.store = tournaments
               /\ Ok(r.out) => /\ Len(r.store) = Len(tournaments) + 1
                               /\ r.store[Len(r.store)].alias = a
                               /\ r.store[Len(r.store)].id = id
                               /\ \A k \in 1..Len(tournaments) : r.store[k] = tournaments[k]

\* the store holds a tournament with a match and a linked captain, and
\* add_tournament under its alias for the other provider tournament is refused
C26_Witness ==
    \E k \in 1..Len(tournaments), id \in TournamentIdArgs :
        LET t == tournaments[k] IN
        /\ t.matches # <<>>
        /\ \E i \in 1..Len(t.teams) : t.teams[i].captain # None
        /\ t.id # id
        /\ ~IsEmpty(AddAnswer(id).info)
        /\ AddTournament(tournaments, t.alias, id, AddAnswer(id).info,
                         AddAnswer(id).participants).out = <<"TournamentAliasExists">>

----------------------------------------------------------------------------
(* SpecAdmin: administrative commands behind tournament_admin_only *)

\* bot_config.BOT_ADMINS
BOT_ADMINS == {"root"}

RoleNames == {"ra", "rb"}

\* msg.frm: its fullname and the guild roles has_guild_role answers True for
Callers ==
    {[fullname |-> "root", roles |-> {}],
     [fullname |-> "u1", roles |-> {"ra"}],
     [fullname |-> "u2", roles |-> {"rb"}],
     [fullname |-> "u3", roles |-> {}]}

\* any(msg.frm.has_guild_role(r) for r in tournament["administrator_roles"])
HoldsAdminRoleOf(t, frm) ==
    \E j \in 1..Len(t.administrator_roles) : t.administrator_roles[j] \in frm.roles

\* tournament_admin_only: r is what the wrapped command would answer; the
\* wrapper calls it for a superuser and for a caller holding a role listed by
\* any stored tournament, and otherwise answers "You are not allowed to
\* perform this action" without calling it
TournamentAdminOnly(store, frm, r) ==
    IF frm.fullname \in BOT_ADMINS THEN r
    ELSE IF \E k \in 1..Len(store) : HoldsAdminRoleOf(store[k], frm) THEN r
    ELSE [store |-> store, out |-> <<"NotAllowed">>]

\* arg_botcmd(..., admin_only=True): the command is dispatched for bot
\* administrators only
BotAdminOnly(store, frm, r) ==
    IF frm.fullname \in BOT_ADMINS THEN r
    ELSE [store |-> store, out |-> <<"AccessDenied">>]

\* TournamentManagerPlugin.add_admin_role past its decorators: found is
\* whether self._bot.find_role(role) finds the role
AddAdminRole(store, alias, role, found) ==
    LET k == AliasIndex(store, alias) IN
    IF k = 0 THEN [store |-> store, out |-> <<"TournamentNotFound">>]
    ELSE IF ~found THEN [store |-> store, out |-> <<"RoleNotFound">>]
    ELSE IF role \in Range(store[k].administrator_roles)
    THEN [store |-> store, out |-> <<"RoleAlreadyAdded">>]
    ELSE [store |-> [store EXCEPT ![k].administrator_roles = Append(@, role)],
          out |-> <<"ok">>]

\* `!add admin role alias role` as frm sends it
AdminAddAdminRole(store, frm, alias, role, found) ==
    BotAdminOnly(store, frm,
        TournamentAdminOnly(store, frm, AddAdminRole(store, alias, role, found)))

\* `!create match alias match_name` as frm sends it
AdminCreateMatch(store, frm, alias, match_name) ==
    TournamentAdminOnly(store, frm, CmdCreateMatch(store, alias, match_name, 0, EmptyDict))

\* `!remove match alias match_name` as frm sends it
AdminRemoveMatch(store, frm, alias, match_name) ==
    TournamentAdminOnly(store, frm, CmdRemoveMatch(store, alias, match_name))

DoAdminAddAdminRole(frm, alias, role, found) ==
    Call(AdminAddAdminRole(tournaments, frm, alias, role, found))

DoAdminCreateMatch(frm, alias, match_name) ==
    Call(AdminCreateMatch(tournaments, frm, alias, match_name))

DoAdminRemoveMatch(frm, alias, match_name) ==
    Call(AdminRemoveMatch(tournaments, frm, alias, match_name))

NextAdmin ==
    \/ \E frm \in Callers, a \in Aliases, role \in RoleNames, found \in BOOLEAN :
           DoAdminAddAdminRole(frm, a, role, found)
    \/ \E frm \in Callers, a \in Aliases, m \in MatchNames : DoAdminCreateMatch(frm, a, m)
    \/ \E frm \in Callers, a \in Aliases, m \in MatchNames : DoAdminRemoveMatch(frm, a, m)

SpecAdmin == InitLink /\ [][NextAdmin]_vars

\* C27: an administrative command targeting tournament T is executed only if
\* the caller is in the superuser set or holds a role listed in T's own
\* administrator_roles: for any other caller the command is refused and T is
\* unchanged.
C27_OwnAdminsOnly ==
    \A frm \in Callers, k \in 1..Len(tournaments), m \in MatchNames :
        LET t == tournaments[k] IN
        (frm.fullname \notin BOT_ADMINS /\ ~HoldsAdminRoleOf(t, frm)) =>
            /\ AdminCreateMatch(tournaments, frm, t.alias, m).out = <<"NotAllowed">>
            /\ AdminCreateMatch(tournaments, frm, t.alias, m).store[k] = t
            /\ AdminRemoveMatch(tournaments, frm, t.alias, m).out = <<"NotAllowed">>
            /\ AdminRemoveMatch(tournaments, frm, t.alias, m).store[k] = t

----------------------------------------------------------------------------
(* Views: show_match, show_matches, show_status *)

\* Match.__str__: teams_ready is never written and created_at is the default
MatchStr(match) ==
    [Status |-> match.status, TeamsJoined |-> Len(match.teams_joined), TeamsReady |-> 0,
     CreatedBy |-> match.created_by, CreatedAt |-> LoadTime]

\* _show_match disclosing the password to the captain of any team
ShowMatchToAnyCaptain(t, match, frm) ==
    LET i == FindTeamByCaptain(t, frm)
        has_joined_the_match == i # 0
        fields == <<<<"Status", match.status>>,
                    <<"Teams Joined", Len(match.teams_joined), Len(match.teams_registered)>>,
                    <<"Created by", match.created_by>>,
                    <<"Match ID", match.id>>,
                    <<"Group", match.group_name>>>>
    IN  [title |-> <<match.name, t.alias>>,
         fields |-> IF has_joined_the_match
                    THEN Append(fields, <<"Password", match.password>>) ELSE fields,
         to |-> frm,
         color |-> IF has_joined_the_match THEN "green" ELSE "grey"]

\* TournamentManagerPlugin._show_match: the card sent to msg.frm
ShowMatch(t, match, frm) ==
    LET i == FindTeamByCaptain(t, frm)
        has_joined_the_match == i # 0 /\ t.teams[i].id \in Range(match.teams_joined)
        fields == <<<<"Status", match.status>>,
                    <<"Teams Joined", Len(match.teams_joined), Len(match.teams_registered)>>,
                    <<"Created by", match.created_by>>,
                    <<"Match ID", match.id>>,
                    <<"Group", match.group_name>>>>
    IN  [title |-> <<match.name, t.alias>>,
         fields |-> IF has_joined_the_match
                    THEN Append(fields, <<"Password", match.password>>) ELSE fields,
         to |-> frm,
         color |-> IF has_joined_the_match THEN "green" ELSE "grey"]

\* TournamentManagerPlugin.show_match: the reply and the cards sent
CmdShowMatch(store, alias, match_name, frm) ==
    LET k == AliasIndex(store, alias) IN
    IF k = 0 THEN [out |-> <<"TournamentNotFound">>, cards |-> <<>>]
    ELSE LET mi == FindMatchByName(store[k], match_name) IN
         IF mi = 0 THEN [out |-> <<"MatchNotFound">>, cards |-> <<>>]
         ELSE [out |-> <<"ok">>, cards |-> <<ShowMatch(store[k], store[k].matches[mi], frm)>>]

\* TournamentManagerPlugin.show_matches: one field per match of the tournament
ShowMatches(store, alias, frm) ==
    LET k == AliasIndex(store, alias) IN
    IF k = 0 THEN [out |-> <<"TournamentNotFound">>, cards |-> <<>>]
    ELSE LET t == store[k]
             i == FindTeamByCaptain(t, frm)
         IN  [out |-> <<"ok">>,
              cards |-> <<[title |-> t.alias,
                           fields |-> [mi \in 1..Len(t.matches) |->
                               <<t.matches[mi].name, MatchStr(t.matches[mi]),
                                 i # 0 /\ t.teams[i].id \in Range(t.matches[mi].teams_joined)>>],
                           color |-> "grey"]>>]

\* Team.show_card
TeamShowCard(team) ==
    [fields |-> <<<<"Team Name", team.name>>, <<"Team ID", team.id>>,
                  <<"Team Captain", team.captain>>, <<"Team Players", team.lineup>>>>,
     color |-> "grey"]

\* TournamentManagerPlugin.show_status: the team card, then a card with the
\* status, the password and the submission of every match the team has joined
ShowStatus(store, frm) ==
    LET c == FindCaptainTeam(frm, store) IN
    IF c.k = 0 THEN [out |-> <<"NotCaptain">>, cards |-> <<>>]
    ELSE LET t == store[c.k]
             team == t.teams[c.i]
             joined_matches == SelectSeq(t.matches,
                                   LAMBDA match : team.id \in Range(match.teams_joined))
             team_card == [title |-> <<team.name, t.info.name>>, to |-> frm,
                           card |-> TeamShowCard(team), color |-> "green"]
             matches_card ==
                 [title |-> <<team.name, t.info.name>>, to |-> frm,
                  fields |-> [j \in 1..Len(joined_matches) |->
                      LET match == joined_matches[j]
                          s == FindSubmissionByMatch(team, match.name)
                      IN  <<match.name, match.status, match.password,
                            IF s = 0 THEN <<>> ELSE <<team.score_submissions[s]>>>>]]
         IN  [out |-> <<"ok">>,
              cards |-> IF joined_matches # <<>> THEN <<team_card, matches_card>>
                        ELSE <<team_card>>]

OtherPassword == "pw2"

\* the store with another password on match mi of tournament k
WithPassword(store, k, mi, password) ==
    [store EXCEPT ![k].matches[mi].password = password]

\* frm is the captain of a team whose id is in the match's teams_joined
CaptainOfJoined(t, match, frm) ==
    \E i \in 1..Len(t.teams) :
        t.teams[i].captain = frm /\ t.teams[i].id \in Range(match.teams_joined)

\* C28: a match's password is disclosed only to a viewer who is the captain of
\* a team whose id is currently in the match's teams_joined: for any other
\* viewer (never joined, left the match, no longer captain) the match view, the
\* matches view and the status view are the same whatever the password is.
C28_PasswordOnlyToJoinedCaptains ==
    \A frm \in Users, k \in 1..Len(tournaments) :
        \A mi \in 1..Len(tournaments[k].matches) :
            LET t == tournaments[k]
                match == t.matches[mi]
                other == WithPassword(tournaments, k, mi, OtherPassword)
            IN  ~CaptainOfJoined(t, match, frm) =>
                    /\ CmdShowMatch(tournaments, t.alias, match.name, frm) =
                           CmdShowMatch(other, t.alias, match.name, frm)
                    /\ ShowMatches(tournaments, t.alias, frm) = ShowMatches(other, t.alias, frm)
                    /\ ShowStatus(tournaments, frm) = ShowStatus(other, frm)

\* a match shows its password to the captain of a joined team, while teams_joined
\* also holds the id of a team that has no captain any more, and the match
\* view is produced for a user who captains no joined team
C28_Witness ==
    \E k \in 1..Len(tournaments) : \E mi \in 1..Len(tournaments[k].matches) :
        LET t == tournaments[k]
            match == t.matches[mi]
            other == WithPassword(tournaments, k, mi, OtherPassword)
        IN  /\ match.password # OtherPassword
            /\ \E frm \in Users :
                   /\ CaptainOfJoined(t, match, frm)
                   /\ CmdShowMatch(tournaments, t.alias, match.name, frm) #
                          CmdShowMatch(other, t.alias, match.name, frm)
                   /\ ShowStatus(tournaments, frm) # ShowStatus(other, frm)
            /\ \E i \in 1..Len(t.teams) :
                   t.teams[i].captain = None /\ t.teams[i].id \in Range(match.teams_joined)
            /\ \E frm \in Users :
                   /\ ~CaptainOfJoined(t, match, frm)
                   /\ Ok(CmdShowMatch(tournaments, t.alias, match.name, frm).out)

----------------------------------------------------------------------------
(* SpecPoints: count_points over stored submissions *)

MaxPosition == 13       \* highest position submitted
MaxEliminations == 2    \* most eliminations submitted

\* dict.get(key, default)
DictGet(d, key, default) == IF key \in DOMAIN d THEN d[key] ELSE default

\* position_points = {1: 15, 2: 12, 3: 9, 4: 9, 5: 6, ..., 12: 3}
PositionPoints ==
    (1 :> 15) @@ (2 :> 12) @@ (3 :> 9) @@ (4 :> 9) @@ (5 :> 6) @@ (6 :> 6) @@
    (7 :> 6) @@ (8 :> 6) @@ (9 :> 3) @@ (10 :> 3) @@ (11 :> 3) @@ (12 :> 3)

\* count_points scoring the fourth place as the fifth
CountPointsTopThree(self) ==
    [ret |-> DictGet([PositionPoints EXCEPT ![4] = 6], self.position, 0) + self.eliminations,
     self |-> self]

\* ScoreSubmission.count_points: the value returned and the submission after
\* the call
CountPoints(self) ==
    [ret |-> DictGet(PositionPoints, self.position, 0) + self.eliminations,
     self |-> self]

NextPoints ==
    \/ \E a \in Aliases : DoCreateMatch(a, "m1", 0, EmptyDict)
    \/ \E k \in 1..Len(tournaments), id \in TeamIdArgs,
          position \in 1..MaxPosition, eliminations \in 0..MaxEliminations :
           DoSvcSubmitScore(k, "m1", id, <<"s1">>, position, eliminations)
    \/ \E u \in Users : DoRemoveScore(u, "m1")

SpecPoints == Init /\ [][NextPoints]_vars

\* the points of the table for a position: 1 -> 15, 2 -> 12, 3..4 -> 9,
\* 5..8 -> 6, 9..12 -> 3, any other position -> 0
TablePoints(position) ==
    IF position = 1 THEN 15
    ELSE IF position = 2 THEN 12
    ELSE IF position \in 3..4 THEN 9
    ELSE IF position \in 5..8 THEN 6
    ELSE IF position \in 9..12 THEN 3
    ELSE 0

\* the submissions stored in the tournaments
StoredSubmissions ==
    UNION {UNION {Range(tournaments[k].teams[i].score_submissions) :
                      i \in 1..Len(tournaments[k].teams)} :
           k \in 1..Len(tournaments)}

\* C29: for every position >= 1 and eliminations >= 0, count_points returns
\* the table value for the position plus the eliminations, and leaves every
\* stored field of the submission unchanged.
C29_CountPoints ==
    \A s \in StoredSubmissions :
        (s.position >= 1 /\ s.eliminations >= 0) =>
            /\ CountPoints(s).ret = TablePoints(s.position) + s.eliminations
            /\ CountPoints(s).self = s

\* one stored submission is beyond the twelfth place with eliminations and
\* scores its eliminations only, another is a fourth place and scores 9 more
\* than its eliminations
C29_Witness ==
    \E s1, s2 \in StoredSubmissions :
        /\ s1.position > 12 /\ s1.eliminations > 0
        /\ CountPoints(s1).ret = s1.eliminations
        /\ s2.position = 4
        /\ CountPoints(s2).ret = 9 + s2.eliminations

----------------------------------------------------------------------------
(* SpecReset: reset_tournament_team on teams that joined and submitted *)

NextReset ==
    \/ \E a \in Aliases, m \in MatchNames : DoCreateMatch(a, m, 0, EmptyDict)
    \/ \E u \in Users, m \in MatchNames : DoJoin(u, m)
    \/ \E k \in 1..Len(tournaments), id \in TeamIdArgs :
           DoSvcSubmitScore(k, "m1", id, <<"s1">>, 1, 0)
    \/ \E k \in 1..Len(tournaments), id \in TeamIdArgs :
           \E p \in ParticipantAnswers(StrOfInt(id)) \cup {EmptyDict} :
               DoSvcResetTournamentTeam(k, id, p)

SpecReset == Init /\ [][NextReset]_vars

\* C30: a successful reset_tournament_team sets the team's captain to None and
\* replaces its lineup, custom_fields and checked_in with the provider's
\* values, while the team's id, name and score_submissions, every other team,
\* and all matches (including teams_joined entries holding this team's id) are
\* unchanged.
C30_ResetFrame ==
    \A k \in 1..Len(tournaments), id \in ProviderIds :
        \A p \in ParticipantAnswers(StrOfInt(id)) \cup {EmptyDict} :
            LET t == tournaments[k]
                r == SvcResetTournamentTeam(t, id, p)
                i == FindTeamById(t, StrOfInt(id))
            IN  Ok(r.out) =>
                    /\ i # 0
                    /\ Len(r.t.teams) = Len(t.teams)
                    /\ r.t.teams[i].captain = None
                    /\ r.t.teams[i].lineup = p.lineup
                    /\ r.t.teams[i].custom_fields = p.custom_fields
                    /\ r.t.teams[i].checked_in = Get(p, "checked_in", None)
                    /\ r.t.teams[i].id = t.teams[i].id
                    /\ r.t.teams[i].name = t.teams[i].name
                    /\ r.t.teams[i].score_submissions = t.teams[i].score_submissions
                    /\ \A j \in 1..Len(t.teams) : j # i => r.t.teams[j] = t.teams[j]
                    /\ r.t.matches = t.matches

\* a team that joined a match and submitted a score has been reset: it has no
\* captain, carries the provider's lineup under its old name, keeps its
\* submission and is still in the match's teams_joined, and a further reset
\* with the provider's answer under another name succeeds
C30_Witness ==
    \E k \in 1..Len(tournaments) : \E i \in 1..Len(tournaments[k].teams) :
        LET t == tournaments[k]
            team == t.teams[i]
        IN  /\ team.captain = None
            /\ team.lineup # <<>>
            /\ team.score_submissions # <<>>
            /\ \E mi \in 1..Len(t.matches) : team.id \in Range(t.matches[mi].teams_joined)
            /\ \E j \in 1..Len(t.teams) : t.teams[j].captain # None
            /\ \E id \in ProviderIds : \E p \in ParticipantAnswers(StrOfInt(id)) :
                   /\ StrOfInt(id) = team.id
                   /\ p.name # team.name
                   /\ Ok(SvcResetTournamentTeam(t, id, p).out)

\* C31: reset_tournament_team fails with the team-not-found error when the
\* team id is absent locally, whatever the provider would answer, and with the
\* participant-fetch error when the provider returns no participant; in both
\* cases the team's captain and lineup and the rest of the tournament are
\* unchanged.
C31_ResetFailures ==
    \A k \in 1..Len(tournaments), id \in TeamIdArgs :
        LET t == tournaments[k]
            i == FindTeamById(t, StrOfInt(id))
        IN  /\ i = 0 =>
                \A p \in ParticipantAnswers(StrOfInt(id)) \cup {EmptyDict} :
                    /\ SvcResetTournamentTeam(t, id, p).out = <<"TournamentTeamIDNotFound">>
                    /\ SvcResetTournamentTeam(t, id, p).t = t
            /\ i # 0 =>
                /\ SvcResetTournamentTeam(t, id, EmptyDict).out =
                       <<"ErrorFetchingParticipantData">>
                /\ SvcResetTournamentTeam(t, id, EmptyDict).t = t

\* a tournament whose team has a captain, has joined a match and has submitted
\* a score is asked to reset that team while the provider returns nothing, and
\* to reset a team id it does not hold
C31_Witness ==
    \E k \in 1..Len(tournaments), id \in TeamIdArgs, absent \in TeamIdArgs :
        LET t == tournaments[k]
            i == FindTeamById(t, StrOfInt(id))
        IN  /\ i # 0
            /\ t.teams[i].captain # None
            /\ t.teams[i].score_submissions # <<>>
            /\ \E mi \in 1..Len(t.matches) : t.teams[i].id \in Range(t.matches[mi].teams_joined)
            /\ SvcResetTournamentTeam(t, id, EmptyDict).out = <<"ErrorFetchingParticipantData">>
            /\ FindTeamById(t, StrOfInt(absent)) = 0
            /\ SvcResetTournamentTeam(t, absent, EmptyDict).out = <<"TournamentTeamIDNotFound">>

----------------------------------------------------------------------------
(* SpecRemove: the service's removals of teams, matches and channels *)

ChannelNames == {"c1", "c2", "c3"}

\* TournamentService.add_channel: in place on the tournament, [t, out]
SvcAddChannel(t, channel) ==
    IF channel \in Range(t.channels)
    THEN [t |-> t, out |-> <<"TournamentChannelExists">>]
    ELSE [t |-> [t EXCEPT !.channels = Append(@, channel)], out |-> <<"ok">>]

\* remove_channel dropping the channel added last
SvcRemoveChannelLast(t, channel) ==
    IF channel \notin Range(t.channels)
    THEN [t |-> t, out |-> <<"TournamentChannelNotFound">>]
    ELSE [t |-> [t EXCEPT !.channels = SubSeq(@, 1, Len(@) - 1)], out |-> <<"ok">>]

\* TournamentService.remove_channel
SvcRemoveChannel(t, channel) ==
    IF channel \notin Range(t.channels)
    THEN [t |-> t, out |-> <<"TournamentChannelNotFound">>]
    ELSE [t |-> [t EXCEPT !.channels = ListRemove(@, channel)], out |-> <<"ok">>]

\* TournamentService.remove_tournament_team
SvcRemoveTournamentTeam(t, team_id) ==
    LET i == FindTeamById(t, StrOfInt(team_id)) IN
    IF i = 0 THEN [t |-> t, out |-> <<"TournamentTeamIDNotFound">>]
    ELSE [t |-> [t EXCEPT !.teams = ListRemove(@, t.teams[i])], out |-> <<"ok">>]

DoSvcAddChannel(k, channel) == SvcCall(k, SvcAddChannel(tournaments[k], channel))

DoSvcRemoveChannel(k, channel) == SvcCall(k, SvcRemoveChannel(tournaments[k], channel))

DoSvcRemoveTournamentTeam(k, team_id) ==
    SvcCall(k, SvcRemoveTournamentTeam(tournaments[k], team_id))

NextRemove ==
    \/ \E a \in Aliases, m \in MatchNames : DoCreateMatch(a, m, 0, EmptyDict)
    \/ \E k \in 1..Len(tournaments), m \in MatchNames : DoSvcRemoveMatch(k, m)
    \/ \E k \in 1..Len(tournaments), c \in ChannelNames : DoSvcAddChannel(k, c)
    \/ \E k \in 1..Len(tournaments), c \in ChannelNames : DoSvcRemoveChannel(k, c)
    \/ \E k \in 1..Len(tournaments), id \in TeamIdArgs : DoSvcRemoveTournamentTeam(k, id)

SpecRemove == Init /\ [][NextRemove]_vars

\* after is before without its element at position i, the others in order
WithoutAt(before, after, i) ==
    /\ Len(after) = Len(before) - 1
    /\ \A j \in 1..Len(after) : after[j] = IF j < i THEN before[j] ELSE before[j + 1]

\* C32: each of remove_tournament_team (by team id), remove_match (by match
\* name) and remove_channel (by channel) removes exactly the one named element,
\* leaving all other elements and their order unchanged; when the named element
\* is absent it raises its typed not-found error and the collection is
\* unchanged.
C32_RemoveExactlyOne ==
    \A k \in 1..Len(tournaments) :
        LET t == tournaments[k] IN
        /\ \A id \in TeamIdArgs :
               LET r == SvcRemoveTournamentTeam(t, id)
                   named == {i \in 1..Len(t.teams) : t.teams[i].id = StrOfInt(id)}
               IN  IF named = {}
                   THEN r.out = <<"TournamentTeamIDNotFound">> /\ r.t.teams = t.teams
                   ELSE Ok(r.out) /\ \E i \in named : WithoutAt(t.teams, r.t.teams, i)
        /\ \A m \in MatchNames :
               LET r == SvcRemoveMatch(t, m)
                   named == {i \in 1..Len(t.matches) : t.matches[i].name = m}
               IN  IF named = {}
                   THEN r.out = <<"TournamentMatchNameNotFound">> /\ r.t.matches = t.matches
                   ELSE Ok(r.out) /\ \E i \in named : WithoutAt(t.matches, r.t.matches, i)
        /\ \A c \in ChannelNames :
               LET r == SvcRemoveChannel(t, c)
                   named == {i \in 1..Len(t.channels) : t.channels[i] = c}
               IN  IF named = {}
                   THEN r.out = <<"TournamentChannelNotFound">> /\ r.t.channels = t.channels
                   ELSE Ok(r.out) /\ \E i \in named : WithoutAt(t.channels, r.t.channels, i)

\* a tournament that has lost a team still holds a team, two matches and three
\* channels: removing the first match or the first channel leaves the later
\* ones, and removing the lost team again fails
C32_Witness ==
    \E k \in 1..Len(tournaments) :
        LET t == tournaments[k] IN
        /\ Len(t.teams) = 1
        /\ Len(t.matches) = 2
        /\ Len(t.channels) = 3
        /\ SvcRemoveChannel(t, t.channels[1]).t.channels = Tail(t.channels)
        /\ SvcRemoveMatch(t, t.matches[1].name).t.matches = Tail(t.matches)
        /\ \E id \in TeamIdArgs \ {3} :
               SvcRemoveTournamentTeam(t, id).out = <<"TournamentTeamIDNotFound">>

----------------------------------------------------------------------------
(* SpecRoles: administrator roles added and removed *)

AdminRoleArgs == {"ra", "rb", "rc"}

\* TournamentService.remove_admin_role: in place on the tournament, [t, out]
SvcRemoveAdminRole(t, role) ==
    IF role \notin Range(t.administrator_roles)
    THEN [t |-> t, out |-> <<"TournamentRoleNotFound">>]
    ELSE [t |-> [t EXCEPT !.administrator_roles = ListRemove(@, role)], out |-> <<"ok">>]

\* TournamentManagerPlugin.remove_admin_role past its decorators: role is the
\* str built by " ".join(role), and both branches read role.name, which a str
\* does not have; the AttributeError leaves the `with` block before
\* tournaments.update
RemoveAdminRole(store, alias, role) ==
    IF AliasIndex(store, alias) = 0 THEN [store |-> store, out |-> <<"TournamentNotFound">>]
    ELSE [store |-> store, out |-> <<"AttributeError">>]

DoAddAdminRole(alias, role, found) == Call(AddAdminRole(tournaments, alias, role, found))

DoRemoveAdminRole(alias, role) == Call(RemoveAdminRole(tournaments, alias, role))

DoSvcRemoveAdminRole(k, role) == SvcCall(k, SvcRemoveAdminRole(tournaments[k], role))

NextRoles ==
    \/ \E a \in Aliases, role \in AdminRoleArgs, found \in BOOLEAN : DoAddAdminRole(a, role, found)
    \/ \E a \in Aliases, role \in AdminRoleArgs : DoRemoveAdminRole(a, role)
    \/ \E k \in 1..Len(tournaments), role \in AdminRoleArgs : DoSvcRemoveAdminRole(k, role)

SpecRoles == InitLink /\ [][NextRoles]_vars

\* C33: remove_admin_role with a role that is in the tournament's
\* administrator_roles removes exactly that role, on both the service path and
\* the chat command path; with a role that is not present it fails with the
\* role-not-found error and administrator_roles is unchanged.
C33_RemoveAdminRole ==
    \A k \in 1..Len(tournaments), role \in AdminRoleArgs :
        LET t == tournaments[k]
            svc == SvcRemoveAdminRole(t, role)
            cmd == RemoveAdminRole(tournaments, t.alias, role)
            others == SelectSeq(t.administrator_roles, LAMBDA e : e # role)
        IN  IF role \in Range(t.administrator_roles)
            THEN /\ Ok(svc.out) /\ svc.t.administrator_roles = others
                 /\ Ok(cmd.out) /\ cmd.store[k].administrator_roles = others
            ELSE /\ svc.out = <<"TournamentRoleNotFound">>
                 /\ svc.t.administrator_roles = t.administrator_roles
                 /\ cmd.out = <<"RoleNotFound">>
                 /\ cmd.store[k].administrator_roles = t.administrator_roles

\* the service path alone: it removes exactly the role, or fails with
\* TournamentRoleNotFound and changes nothing
SvcRemovesRole ==
    \A k \in 1..Len(tournaments), role \in AdminRoleArgs :
        LET t == tournaments[k]
            svc == SvcRemoveAdminRole(t, role)
        IN  IF role \in Range(t.administrator_roles)
            THEN /\ Ok(svc.out)
                 /\ svc.t.administrator_roles =
                        SelectSeq(t.administrator_roles, LAMBDA e : e # role)
            ELSE svc.out = <<"TournamentRoleNotFound">> /\ svc.t = t

----------------------------------------------------------------------------
(* SpecCreate: a tournament created from the provider and then maintained *)

\* the get_participants answers at creation: nobody, one participant, two
\* participants, and a list that names participant "2" twice
CreateFetches ==
    {<<>>,
     <<Participant("1", "A")>>,
     <<Participant("1", "A"), Participant("2", "B")>>,
     <<Participant("2", "B"), Participant("2", "B")>>}

\* create_tournament leaving out the first participant fetched
SvcCreateTournamentSkipping(tournament_id, alias, info, participants) ==
    IF IsEmpty(info) THEN [made |-> <<>>, out |-> <<"TournamentIDNotFound">>]
    ELSE [made |-> <<Tournament(tournament_id, alias, ToornamentInfoFromDict(info),
                                [j \in 1..(Len(participants) - 1) |->
                                     TeamFromDict(participants[j + 1])])>>,
          out |-> <<"ok">>]

\* TournamentService.create_tournament: made holds the Tournament returned,
\* nothing when the call raises
SvcCreateTournament(tournament_id, alias, info, participants) ==
    IF IsEmpty(info) THEN [made |-> <<>>, out |-> <<"TournamentIDNotFound">>]
    ELSE [made |-> <<Tournament(tournament_id, alias, ToornamentInfoFromDict(info),
                                [j \in 1..Len(participants) |->
                                     TeamFromDict(participants[j])])>>,
          out |-> <<"ok">>]

\* a caller of create_tournament keeping the result under its alias
DoSvcCreateTournament(alias, tournament_id, info, participants) ==
    /\ AliasIndex(tournaments, alias) = 0
    /\ LET r == SvcCreateTournament(tournament_id, alias, info, participants)
       IN  Call([store |-> tournaments \o r.made, out |-> r.out])

NextCreate ==
    \/ \E id \in TournamentIdArgs, ps \in CreateFetches :
           DoSvcCreateTournament("a1", id, AddAnswer(id).info, ps)
    \/ \E id \in TournamentIdArgs, ps \in CreateFetches :
           DoAddTournament("a1", id, AddAnswer(id).info, ps)
    \/ \E k \in 1..Len(tournaments), r \in RefreshAnswers :
           DoSvcRefreshTournament(k, r.info, r.participants)
    \/ \E a \in Aliases, r \in RefreshAnswers : DoRefreshTournament(a, r.info, r.participants)
    \/ \E k \in 1..Len(tournaments), id \in TeamIdArgs : DoSvcRemoveTournamentTeam(k, id)
    \/ \E a \in Aliases, id \in TeamIdArgs, f \in BOOLEAN : DoRemoveTeam(a, id, f)
    \/ \E k \in 1..Len(tournaments), id \in ProviderIds :
           \E p \in ParticipantAnswers(StrOfInt(id)) \cup {EmptyDict} :
               DoSvcResetTournamentTeam(k, id, p)
    \/ \E a \in Aliases, id \in ProviderIds, f \in BOOLEAN :
           \E p \in ParticipantAnswers(StrOfInt(id)) \cup {EmptyDict} :
               DoResetTeam(a, id, p, f)

SpecCreate == InitAdd /\ [][NextCreate]_vars

\* C34: in every reachable state a tournament's teams are unique by id, after
\* any sequence of create_tournament, refresh_tournament (including a fetch
\* that lists the same new participant id more than once), remove_team and
\* reset_team.
C34_TeamsUniqueById ==
    \A k \in 1..Len(tournaments) :
        \A i, j \in 1..Len(tournaments[k].teams) :
            tournaments[k].teams[i].id = tournaments[k].teams[j].id => i = j

\* C35: create_tournament returns a Tournament carrying the given alias and id
\* and exactly one team per participant returned by the provider (the j-th team
\* built from the j-th entry of the list), with no matches; if the provider
\* does not know the tournament id it fails with TournamentIDNotFound and no
\* tournament is produced.
C35_CreateTournament ==
    \A alias \in Aliases, id \in TournamentIdArgs, ps \in CreateFetches :
        LET info == AddAnswer(id).info
            r == SvcCreateTournament(id, alias, info, ps)
            kept == tournaments \o r.made
        IN  IF IsEmpty(info)
            THEN r.out = <<"TournamentIDNotFound">> /\ kept = tournaments
            ELSE /\ Ok(r.out)
                 /\ Len(kept) = Len(tournaments) + 1
                 /\ kept[Len(kept)].alias = alias
                 /\ kept[Len(kept)].id = id
                 /\ kept[Len(kept)].matches = <<>>
                 /\ Len(kept[Len(kept)].teams) = Len(ps)
                 /\ \A j \in 1..Len(ps) :
                        /\ kept[Len(kept)].teams[j].id = ps[j].id
                        /\ kept[Len(kept)].teams[j].name = ps[j].name
                        /\ kept[Len(kept)].teams[j].captain = None
                        /\ kept[Len(kept)].teams[j].score_submissions = <<>>

\* the store holds a tournament exactly as create_tournament returned it for
\* two participants, and create_tournament for an id the provider does not
\* know produces nothing
C35_Witness ==
    \E k \in 1..Len(tournaments), id, unknown \in TournamentIdArgs, ps \in CreateFetches :
        LET r == SvcCreateTournament(id, tournaments[k].alias, AddAnswer(id).info, ps) IN
        /\ Len(ps) = 2
        /\ ps[1].id # ps[2].id
        /\ r.made = <<tournaments[k]>>
        /\ IsEmpty(AddAnswer(unknown).info)
        /\ SvcCreateTournament(unknown, "a2", AddAnswer(unknown).info, ps).made = <<>>

----------------------------------------------------------------------------
(* SpecChannel: commands behind tournament_channel_only *)

\* channel arguments and room names, as sequences of their pieces
ChannelArgs == {<<"<", "c1", ">">>, <<"c2">>}
Rooms == {<<"c1">>, <<"c2">>, <<"c3">>}

\* sanitize_channel: name.replace("<", "").replace(">", "")
SanitizeChannel(name) == SelectSeq(name, LAMBDA piece : piece \notin {"<", ">"})

\* msg: the sender, whether it is a direct message, and the room otherwise
Messages == [frm : Users, is_direct : BOOLEAN, room : Rooms]

\* tournament_channel_only: r is what the wrapped command would answer.
\* hasattr(kwargs, "alias") is False for every dict, so the channels are always
\* those of the tournament the sender captains a team in, None when there is
\* no such tournament
TournamentChannelOnly(store, msg, r) ==
    LET c == FindCaptainTeam(msg.frm, store)
        tournament_channels == IF c.k # 0 THEN store[c.k].channels ELSE <<>>
    IN  IF msg.is_direct THEN r
        ELSE IF tournament_channels = <<>> THEN r
        ELSE IF \E j \in 1..Len(tournament_channels) :
                    SanitizeChannel(tournament_channels[j]) = SanitizeChannel(msg.room)
        THEN r
        ELSE [store |-> store, out |-> <<"UseTournamentChannel">>]

\* `!link alias team_name` as msg sends it
ChannelLink(store, msg, alias, team_name, discord_fails) ==
    TournamentChannelOnly(store, msg, Link(store, msg.frm, alias, team_name, discord_fails))

\* `!unlink team_name` as msg sends it
ChannelUnlink(store, msg, team_name, discord_fails) ==
    TournamentChannelOnly(store, msg, Unlink(store, msg.frm, team_name, discord_fails))

DoChannelLink(msg, alias, team_name, discord_fails) ==
    Call(ChannelLink(tournaments, msg, alias, team_name, discord_fails))

DoChannelUnlink(msg, team_name, discord_fails) ==
    Call(ChannelUnlink(tournaments, msg, team_name, discord_fails))

NextChannel ==
    \/ \E k \in 1..Len(tournaments), c \in ChannelArgs : DoSvcAddChannel(k, c)
    \/ \E msg \in Messages, a \in Aliases, n \in TeamNames, f \in BOOLEAN :
           DoChannelLink(msg, a, n, f)
    \/ \E msg \in Messages, n \in TeamNames, f \in BOOLEAN : DoChannelUnlink(msg, n, f)

SpecChannel == InitLink /\ [][NextChannel]_vars

\* the room of msg is one of the tournament's configured channels
InChannelOf(t, msg) ==
    \E j \in 1..Len(t.channels) : SanitizeChannel(t.channels[j]) = SanitizeChannel(msg.room)

\* C36: a channel-scoped command that names a tournament alias and is sent in
\* a non-direct room that is not one of that tournament's configured channels
\* (channels non-empty) is rejected and not executed, whoever the sender is;
\* sent as a direct message, in one of the configured channels, or when no
\* channel is configured, it is executed.
C36_ChannelScope ==
    \A msg \in Messages, k \in 1..Len(tournaments), n \in TeamNames :
        LET t == tournaments[k]
            r == ChannelLink(tournaments, msg, t.alias, n, FALSE)
        IN  IF ~msg.is_direct /\ t.channels # <<>> /\ ~InChannelOf(t, msg)
            THEN r.out = <<"UseTournamentChannel">> /\ r.store = tournaments
            ELSE r = Link(tournaments, msg.frm, t.alias, n, FALSE)

----------------------------------------------------------------------------
(* SpecThreads: commands run on the thread pool (BOT_ASYNC)               *)
(* A command reads the store when it enters `with self.mutable(...)`,     *)
(* works on that copy, and the copy is written back when the block is     *)
(* left by a return; an exception leaves the block without the write.     *)

\* the worker threads that take commands
Threads == {1, 2}

\* a command in flight: the handler and its arguments
Command(op, a, b, c, n) == [op |-> op, a |-> a, b |-> b, c |-> c, n |-> n]

NoCommand == Command("none", "", "", "", 0)

\* the handler of a command applied to a copy of the store: [store, out]
Run(cmd, store) ==
    CASE cmd.op = "join" -> CmdJoin(store, cmd.a, cmd.b)
      [] cmd.op = "start_match" -> CmdStartMatch(store, cmd.a, cmd.b, FALSE)
      [] cmd.op = "link" -> Link(store, cmd.a, cmd.b, cmd.c, FALSE)
      [] cmd.op = "link_team_captain" ->
             LinkTeamCaptain(store, cmd.a, cmd.n, cmd.c, TRUE, FALSE)
      [] OTHER -> [store |-> store, out |-> <<"none">>]

\* the replies given before the `with` block is entered, and the exceptions
\* that leave it: neither writes the copy back
NoWriteBack ==
    {"TournamentNotFound", "UserNotFound", "AlreadyCaptain",
     "AttributeError", "DiscordError", "KeyError"}

\* the part of the handler that runs on the copy read at `with self.mutable`:
\* link_team_captain has looked for the user's team before the block, the
\* other handlers do it inside (their check of the alias before the block
\* gives the same answer on the copy, aliases being never removed here)
Block(cmd, snap) ==
    IF cmd.op = "link_team_captain"
    THEN LinkTeamCaptainBlock(snap, cmd.a, cmd.n, cmd.c, FALSE)
    ELSE Run(cmd, snap)

\* the store after the thread holding copy snap of it has run cmd to its end
WriteBack(cmd, snap, current) ==
    LET r == Block(cmd, snap) IN
    IF r.out[1] \in NoWriteBack THEN current ELSE r.store

IdleThread == [pc |-> "idle", cmd |-> NoCommand, snap |-> <<>>, out |-> <<"none">>]

\* no command in flight; base is the store the round of commands started from
Quiet(store) == [base |-> store, run |-> [th \in Threads |-> IdleThread]]

\* a thread takes cmd and reads the store
Begin(th, cmd) ==
    /\ threads.run[th].pc = "idle"
    /\ threads' = [base |-> IF \A o \in Threads : threads.run[o].pc = "idle"
                            THEN tournaments ELSE threads.base,
                   run |-> [threads.run EXCEPT
                               ![th] = [pc |-> "read", cmd |-> cmd, snap |-> tournaments,
                                        out |-> <<"none">>]]]
    /\ UNCHANGED <<tournaments, now, completed>>

\* the thread runs the handler on its copy, answers, and leaves the block;
\* no command here ends a match, so `completed` stays
Finish(th) ==
    /\ threads.run[th].pc = "read"
    /\ tournaments' = WriteBack(threads.run[th].cmd, threads.run[th].snap, tournaments)
    /\ threads' = [threads EXCEPT
                      !.run[th].pc = "done",
                      !.run[th].out = Block(threads.run[th].cmd, threads.run[th].snap).out]
    /\ UNCHANGED <<now, completed>>

\* the pool is idle again
Rest ==
    /\ \A th \in Threads : threads.run[th].pc \in {"idle", "done"}
    /\ \E th \in Threads : threads.run[th].pc = "done"
    /\ threads' = Quiet(tournaments)
    /\ UNCHANGED <<tournaments, now, completed>>

\* the store after `!add tournament a1 1`, two links and two create_match
ThreadsTournament ==
    [LinkedTournament EXCEPT
        !.matches = <<Match(0, "m1", Admin, Password), Match(0, "m2", Admin, Password)>>]

InitThreads ==
    /\ tournaments = <<ThreadsTournament>>
    /\ now = LoadTime
    /\ completed = {}
    /\ threads = Quiet(tournaments)

JoinCommands ==
    {Command("join", u, m, "", 0) : u \in RosterUsers, m \in MatchNames}
    \cup {Command("start_match", "a1", m, "", 0) : m \in MatchNames}

NextThreads ==
    \/ \E th \in Threads, cmd \in JoinCommands : Begin(th, cmd)
    \/ \E th \in Threads : Finish(th)
    \/ Rest

SpecThreads == InitThreads /\ [][NextThreads]_vars

\* the store after cmd1 and then cmd2 have each run to completion on base
Serial(base, cmd1, cmd2) == Run(cmd2, Run(cmd1, base).store).store

\* C37: when two commands are processed concurrently, no committed change is
\* lost: once both have finished, the store equals the result of executing the
\* two commands in some serial order.
C37_Serializable ==
    (\A th \in Threads : threads.run[th].pc = "done") =>
        tournaments \in {Serial(threads.base, threads.run[1].cmd, threads.run[2].cmd),
                         Serial(threads.base, threads.run[2].cmd, threads.run[1].cmd)}

----------------------------------------------------------------------------
(* SpecLinkRace: link and link_team_captain on the thread pool *)

\* what the handler answers before its `with self.mutable` block, from the
\* store as it is then; <<"pass">> when it goes on to the block
PreCheck(cmd, store) ==
    IF AliasIndex(store, IF cmd.op = "link" THEN cmd.b ELSE cmd.a) = 0 THEN <<"TournamentNotFound">>
    ELSE IF cmd.op = "link_team_captain" /\ FindCaptainTeam(cmd.c, store).k # 0
    THEN <<"AlreadyCaptain">>
    ELSE <<"pass">>

\* a thread takes cmd and runs the handler up to the `with` block
Check(th, cmd) ==
    /\ threads.run[th].pc = "idle"
    /\ threads' = [base |-> IF \A o \in Threads : threads.run[o].pc = "idle"
                            THEN tournaments ELSE threads.base,
                   run |-> [threads.run EXCEPT
                               ![th] = [pc |-> IF PreCheck(cmd, tournaments) = <<"pass">>
                                               THEN "checked" ELSE "done",
                                        cmd |-> cmd, snap |-> <<>>,
                                        out |-> PreCheck(cmd, tournaments)]]]
    /\ UNCHANGED <<tournaments, now, completed>>

\* the thread enters the block and reads the store
Enter(th) ==
    /\ threads.run[th].pc = "checked"
    /\ threads' = [threads EXCEPT !.run[th].pc = "read", !.run[th].snap = tournaments]
    /\ UNCHANGED <<tournaments, now, completed>>

InitLinkRace ==
    /\ tournaments = UnlinkedTournaments
    /\ now = LoadTime
    /\ completed = {}
    /\ threads = Quiet(tournaments)

RaceTeamNames == {"A", "C"}
RaceTeamIds == {1, 2, 3}

\* `!link <alias> <team>` sent by a roster user (a the sender, b the alias, c
\* the team name) and `!link team captain <alias> <id> <user>` (a the alias,
\* n the team id, c the user); no tournament has the alias a3
LinkCommands ==
    {Command("link", u, a, n, 0) : u \in RosterUsers, a \in Aliases, n \in RaceTeamNames}
    \cup {Command("link_team_captain", a, "", u, id) :
              a \in {"a1", "a3"}, u \in RosterUsers, id \in RaceTeamIds}

NextLinkRace ==
    \/ \E th \in Threads, cmd \in LinkCommands : Check(th, cmd)
    \/ \E th \in Threads : Enter(th)
    \/ \E th \in Threads : Finish(th)
    \/ Rest

SpecLinkRace == InitLinkRace /\ [][NextLinkRace]_vars

\* the identity a command makes a captain
Identity(cmd) == IF cmd.op = "link" THEN cmd.a ELSE cmd.c

\* no identity is the captain of two teams
OneTeamPerCaptain ==
    \A u \in RosterUsers : Cardinality(TeamsOfCaptain(tournaments, u)) <= 1

\* of two link commands run together for different identities on the same team
\* of the same tournament, at most one answers that the sender is the captain
OneLinkSucceeds ==
    LET c1 == threads.run[1].cmd
        c2 == threads.run[2].cmd
    IN  (/\ \A th \in Threads : threads.run[th].pc = "done"
         /\ c1.op = "link" /\ c2.op = "link"
         /\ c1.a # c2.a /\ c1.b = c2.b /\ c1.c = c2.c)
            => ~(threads.run[1].out = <<"ok">> /\ threads.run[2].out = <<"ok">>)

\* C38: captain exclusivity under interleaving: an identity that two link or
\* link_team_captain commands were run for is the captain of at most one team,
\* and when two commands link different identities to the same team, one of
\* them fails.
C38_CaptainExclusivity == OneTeamPerCaptain /\ OneLinkSucceeds

----------------------------------------------------------------------------
(* Referential integrity of matches and score submissions *)

\* the ids of the teams of tournament t
TeamIdsOf(t) == {t.teams[i].id : i \in 1..Len(t.teams)}

\* C39: in every reachable state, every team id in a match's teams_joined is
\* the id of a team present in that tournament's teams: no operation
\* (remove_team, reset) leaves a dangling team id in teams_joined.
C39_JoinedTeamsExist ==
    \A k \in 1..Len(tournaments) : \A mi \in 1..Len(tournaments[k].matches) :
        \A j \in 1..Len(tournaments[k].matches[mi].teams_joined) :
            tournaments[k].matches[mi].teams_joined[j] \in TeamIdsOf(tournaments[k])

\* every score submission of every team of t names a match of t
SubmissionsNameMatches(t) ==
    \A i \in 1..Len(t.teams) : \A si \in 1..Len(t.teams[i].score_submissions) :
        FindMatchByName(t, t.teams[i].score_submissions[si].match_name) # 0

\* C40: in every reachable state, every ScoreSubmission held by a team names a
\* match that currently exists in the tournament; in particular a match that
\* create_match has just made, under a name a removed match may have had,
\* has no score submission of any team.
C40_SubmissionsNameMatches ==
    /\ \A k \in 1..Len(tournaments) : SubmissionsNameMatches(tournaments[k])
    /\ \A k \in 1..Len(tournaments), m \in MatchNames :
           LET r == CmdCreateMatch(tournaments, tournaments[k].alias, m, 0, EmptyDict) IN
           Ok(r.out) =>
               \A i \in 1..Len(r.store[k].teams) :
                   FindSubmissionByMatch(r.store[k].teams[i], m) = 0

====
